---- MODULE Spec2Model ----
(***************************************************************************)
(* Requirement -> risk generation pipeline of CoherencePLM: the in-memory  *)
(* session map (workflow_states), the stage functions of nodes.py, the     *)
(* route handlers of api/routes/project and the Neo4j graph written by     *)
(* tools.save_to_neo4j and read by load_project_from_neo4j.                *)
(*                                                                         *)
(* Python values are modelled as follows.  Strings are TLA+ strings.       *)
(* Optional[X] is a sequence of length at most one: None is <<>> and a     *)
(* present value x is <<x>>.  Lists are sequences; Python index i of a     *)
(* list l is element PyPos(l, i) = i + 1 (or Len(l) + i + 1 for i < 0).    *)
(* A reply of the language model is a record that says how the call ended  *)
(* and what json the text holds.                                           *)
(***************************************************************************)
EXTENDS Integers, Sequences, FiniteSets, Bags, TLC

VARIABLES workflow_states, graph_db, clock, last

vars == <<workflow_states, graph_db, clock, last>>

-----------------------------------------------------------------------------
(* Program constants *)

\* nodes.py:101, 169, 255, 283: a stage holds exactly five items
StageSize == 5

\* nodes.py:330, 385: a regenerated item shorter than this is rejected
MinItemLen == 10

\* nodes.py:280: a fallback risk quotes the first 60 characters of the requirement
QuoteLen == 60

\* nodes.py:552: requirement[:50] in the fallback test cases
TestQuoteLen == 50

\* nodes.py:520: fewer test cases than this are replaced by the fallback
MinTestCases == 2

-----------------------------------------------------------------------------
(* Bounds of the model *)

\* the graph holds at most this many Requirement nodes and this many Risk
\* nodes (a save that would exceed it is not taken)
MaxNodes == 6

\* datetime() returns a value in 0..MaxClock
MaxClock == 1

\* a session's message list holds at most this many entries
MaxMessages == 4

-----------------------------------------------------------------------------
(* Python values *)

None == <<>>

Some(x) == <<x>>

IsNone(o) == o = <<>>

\* the 1-based position that Python index i denotes in list l
PyPos(l, i) == IF i < 0 THEN Len(l) + i + 1 ELSE i + 1

\* l[i] raises IndexError
IndexError(l, i) == PyPos(l, i) < 1 \/ PyPos(l, i) > Len(l)

\* l[i] = v
ListSet(l, i, v) == [l EXCEPT ![PyPos(l, i)] = v]

\* the values of the list l
Range(l) == {l[i] : i \in 1..Len(l)}

\* the first QuoteLen characters of the strings of this model that are longer
\* than QuoteLen: the fallback requirements of the keywords a session can select
Truncate60(s) ==
    CASE s = "The implementation shall ensure None meets industry standards"
        -> "The implementation shall ensure None meets industry standard"
      []
      s = "The system shall implement advanced safety features for optimal performance"
        -> "The system shall implement advanced safety features for opti"
      []
      s = "The design shall incorporate advanced safety features for user satisfaction"
        -> "The design shall incorporate advanced safety features for us"
      []
      s = "The product shall maintain advanced safety features throughout its lifecycle"
        -> "The product shall maintain advanced safety features througho"
      []
      s = "The implementation shall ensure advanced safety features meets industry standards"
        -> "The implementation shall ensure advanced safety features mee"
      []
      s = "The solution shall provide advanced safety features with minimal maintenance"
        -> "The solution shall provide advanced safety features with min"
      []
      s = "The system shall implement reliable performance standards for optimal performance"
        -> "The system shall implement reliable performance standards fo"
      []
      s = "The design shall incorporate reliable performance standards for user satisfaction"
        -> "The design shall incorporate reliable performance standards "
      []
      s = "The product shall maintain reliable performance standards throughout its lifecycle"
        -> "The product shall maintain reliable performance standards th"
      []
      s = "The implementation shall ensure reliable performance standards meets industry standards"
        -> "The implementation shall ensure reliable performance standar"
      []
      s = "The solution shall provide reliable performance standards with minimal maintenance"
        -> "The solution shall provide reliable performance standards wi"
      []
      s = "The system shall implement adaptive cruise control for optimal performance"
        -> "The system shall implement adaptive cruise control for optim"
      []
      s = "The design shall incorporate adaptive cruise control for user satisfaction"
        -> "The design shall incorporate adaptive cruise control for use"
      []
      s = "The product shall maintain adaptive cruise control throughout its lifecycle"
        -> "The product shall maintain adaptive cruise control throughou"
      []
      s = "The implementation shall ensure adaptive cruise control meets industry standards"
        -> "The implementation shall ensure adaptive cruise control meet"
      []
      s = "The solution shall provide adaptive cruise control with minimal maintenance"
        -> "The solution shall provide adaptive cruise control with mini"
      []
      s = "The system shall implement driver drowsiness monitoring for optimal performance"
        -> "The system shall implement driver drowsiness monitoring for "
      []
      s = "The design shall incorporate driver drowsiness monitoring for user satisfaction"
        -> "The design shall incorporate driver drowsiness monitoring fo"
      []
      s = "The product shall maintain driver drowsiness monitoring throughout its lifecycle"
        -> "The product shall maintain driver drowsiness monitoring thro"
      []
      s = "The implementation shall ensure driver drowsiness monitoring meets industry standards"
        -> "The implementation shall ensure driver drowsiness monitoring"
      []
      s = "The solution shall provide driver drowsiness monitoring with minimal maintenance"
        -> "The solution shall provide driver drowsiness monitoring with"

\* the first TestQuoteLen characters of the same strings
Truncate50(s) ==
    CASE s = "The system shall implement None for optimal performance"
        -> "The system shall implement None for optimal perfor"
      []
      s = "The design shall incorporate None for user satisfaction"
        -> "The design shall incorporate None for user satisfa"
      []
      s = "The product shall maintain None throughout its lifecycle"
        -> "The product shall maintain None throughout its lif"
      []
      s = "The implementation shall ensure None meets industry standards"
        -> "The implementation shall ensure None meets industr"
      []
      s = "The solution shall provide None with minimal maintenance"
        -> "The solution shall provide None with minimal maint"
      []
      s = "The system shall implement advanced safety features for optimal performance"
        -> "The system shall implement advanced safety feature"
      []
      s = "The design shall incorporate advanced safety features for user satisfaction"
        -> "The design shall incorporate advanced safety featu"
      []
      s = "The product shall maintain advanced safety features throughout its lifecycle"
        -> "The product shall maintain advanced safety feature"
      []
      s = "The implementation shall ensure advanced safety features meets industry standards"
        -> "The implementation shall ensure advanced safety fe"
      []
      s = "The solution shall provide advanced safety features with minimal maintenance"
        -> "The solution shall provide advanced safety feature"
      []
      s = "The system shall implement reliable performance standards for optimal performance"
        -> "The system shall implement reliable performance st"
      []
      s = "The design shall incorporate reliable performance standards for user satisfaction"
        -> "The design shall incorporate reliable performance "
      []
      s = "The product shall maintain reliable performance standards throughout its lifecycle"
        -> "The product shall maintain reliable performance st"
      []
      s = "The implementation shall ensure reliable performance standards meets industry standards"
        -> "The implementation shall ensure reliable performan"
      []
      s = "The solution shall provide reliable performance standards with minimal maintenance"
        -> "The solution shall provide reliable performance st"
      []
      s = "The system shall implement adaptive cruise control for optimal performance"
        -> "The system shall implement adaptive cruise control"
      []
      s = "The design shall incorporate adaptive cruise control for user satisfaction"
        -> "The design shall incorporate adaptive cruise contr"
      []
      s = "The product shall maintain adaptive cruise control throughout its lifecycle"
        -> "The product shall maintain adaptive cruise control"
      []
      s = "The implementation shall ensure adaptive cruise control meets industry standards"
        -> "The implementation shall ensure adaptive cruise co"
      []
      s = "The solution shall provide adaptive cruise control with minimal maintenance"
        -> "The solution shall provide adaptive cruise control"
      []
      s = "The system shall implement driver drowsiness monitoring for optimal performance"
        -> "The system shall implement driver drowsiness monit"
      []
      s = "The design shall incorporate driver drowsiness monitoring for user satisfaction"
        -> "The design shall incorporate driver drowsiness mon"
      []
      s = "The product shall maintain driver drowsiness monitoring throughout its lifecycle"
        -> "The product shall maintain driver drowsiness monit"
      []
      s = "The implementation shall ensure driver drowsiness monitoring meets industry standards"
        -> "The implementation shall ensure driver drowsiness "
      []
      s = "The solution shall provide driver drowsiness monitoring with minimal maintenance"
        -> "The solution shall provide driver drowsiness monit"

\* s[:n], for n = QuoteLen or n = TestQuoteLen
Prefix(s, n) ==
    IF Len(s) <= n THEN s ELSE IF n = QuoteLen THEN Truncate60(s) ELSE Truncate50(s)

-----------------------------------------------------------------------------
(* Replies of the language model (llm.invoke) to a whole-stage prompt *)

ReplyRaise == [kind |-> "raise", key |-> "", items |-> <<>>]

\* text without any bracket: extract_json_from_text returns None
ReplyProse == [kind |-> "prose", key |-> "", items |-> <<>>]

\* text with brackets that json.loads rejects also after the comma repair
ReplyGarbage == [kind |-> "garbage", key |-> "", items |-> <<>>]

\* a json array of strings
ReplyArray(items) == [kind |-> "array", key |-> "", items |-> items]

\* a json array of StageSize items that are not strings
ReplyArrayNonStr == [kind |-> "array_nonstr", key |-> "", items |-> <<>>]

\* a json object with one key holding an array of strings
ReplyObject(key, items) == [kind |-> "object", key |-> key, items |-> items]

\* a json array of objects inside a ```json fence
ReplyFencedArray(items) == [kind |-> "fenced_array", key |-> "", items |-> items]

\* a json array of objects without a fence
ReplyArrayOfObjects(items) == [kind |-> "array_objects", key |-> "", items |-> items]

\* nodes.py:90-98 (159-166, 239-246, 507-515): extract_json_from_text, then
\* safe_json_parse; a reply without json that does not start with a bracket
\* raises ValueError.  Of an array of objects without a fence
\* extract_json_from_text (nodes.py:48-53) returns the text from the first brace
\* to the last: one object, or objects with commas between them, which
\* json.loads rejects
ParseReply(reply) ==
    CASE reply.kind \in {"raise", "prose"} ->
             [raised |-> TRUE, type |-> "none", key |-> "", items |-> <<>>]
      [] reply.kind = "garbage" -> [raised |-> FALSE, type |-> "none", key |-> "", items |-> <<>>]
      [] reply.kind = "array" -> [raised |-> FALSE, type |-> "list", key |-> "", items |-> reply.items]
      [] reply.kind = "array_nonstr" -> [raised |-> FALSE, type |-> "list_nonstr", key |-> "", items |-> <<>>]
      [] reply.kind = "object" -> [raised |-> FALSE, type |-> "dict", key |-> reply.key, items |-> reply.items]
      [] reply.kind = "fenced_array" ->
             [raised |-> FALSE, type |-> "list", key |-> "", items |-> reply.items]
      [] reply.kind = "array_objects" ->
             IF reply.items = <<>>
             THEN [raised |-> FALSE, type |-> "list", key |-> "", items |-> <<>>]
             ELSE IF Len(reply.items) = 1
             THEN [raised |-> FALSE, type |-> "dict", key |-> "test_id", items |-> <<>>]
             ELSE [raised |-> FALSE, type |-> "none", key |-> "", items |-> <<>>]

\* the test without its length clause: a list of any length is accepted
InvalidListAnyLength(parsed) ==
    parsed.type \notin {"list", "list_nonstr"}

\* not v or not isinstance(v, list) or len(v) != 5
InvalidList(parsed) ==
    \/ parsed.type \notin {"list", "list_nonstr"}
    \/ parsed.type = "list" /\ Len(parsed.items) # StageSize

\* a reply to a single-item prompt: the text, wrapped in the quote characters
\* the llm put around it
SingleRaise == [kind |-> "raise", quote |-> "", text |-> ""]

SingleText(quote, text) == [kind |-> "text", quote |-> quote, text |-> text]

\* nodes.py:323-327: content.strip().strip('"').strip("'").strip() of a reply
\* whose text itself neither starts nor ends with a quote or a blank
CleanedContent(reply) == reply.text

-----------------------------------------------------------------------------
(* Stage functions of nodes.py.  Each takes the state dictionary and the   *)
(* reply of the one llm call it makes, and returns the state it leaves and *)
(* whether it raised.                                                      *)

FallbackKeywords ==
    << "advanced safety features", "fuel efficient engines",
       "comfortable interior design", "advanced technology integration",
       "reliable performance standards" >>

FallbackRequirements(kw) ==
    << "The system shall implement " \o kw \o " for optimal performance",
       "The design shall incorporate " \o kw \o " for user satisfaction",
       "The product shall maintain " \o kw \o " throughout its lifecycle",
       "The implementation shall ensure " \o kw \o " meets industry standards",
       "The solution shall provide " \o kw \o " with minimal maintenance" >>

\* str(None) where the selected keyword is absent
KeywordText(state) ==
    IF IsNone(state.selected_keyword) THEN "None" ELSE state.selected_keyword[1]

RECURSIVE PadRisks(_)
PadRisks(risks) ==
    IF Len(risks) < StageSize
    THEN PadRisks(Append(risks,
            "General implementation risk for requirement " \o ToString(Len(risks) + 1)))
    ELSE risks

generate_fallback_risks(requirements) ==
    LET quoted == [i \in 1..Len(requirements) |->
                     "Potential challenges in implementing: "
                        \o Prefix(requirements[i], QuoteLen) \o "..."]
    IN  SubSeq(PadRisks(quoted), 1, StageSize)

KeywordsExceptPath(state) ==
    [state |-> [state EXCEPT !.keyword_output = Some(FallbackKeywords),
                             !.messages = Append(@, "Fallback keywords")],
     raised |-> FALSE]

generate_keywords(state, reply) ==
    LET parsed == ParseReply(reply)
        keywords == IF InvalidList(parsed) THEN FallbackKeywords ELSE parsed.items
    IN  IF reply.kind = "raise" \/ parsed.raised
        THEN KeywordsExceptPath(state)
        ELSE IF parsed.type = "list_nonstr"
        THEN KeywordsExceptPath(state)   \* KeywordOutput(...) rejects the items
        ELSE [state |-> [state EXCEPT !.keyword_output = Some(keywords),
                                      !.messages = Append(@, "Keywords")],
              raised |-> FALSE]

RequirementsExceptPath(state) ==
    [state |-> [state EXCEPT !.requirements_output =
                                 Some(FallbackRequirements(KeywordText(state)))],
     raised |-> FALSE]

generate_requirements(state, reply) ==
    LET parsed == ParseReply(reply)
        requirements == IF InvalidList(parsed)
                        THEN FallbackRequirements(KeywordText(state))
                        ELSE parsed.items
    IN  IF reply.kind = "raise" \/ parsed.raised
        THEN RequirementsExceptPath(state)
        ELSE IF parsed.type = "list_nonstr"
        THEN RequirementsExceptPath(state)   \* RequirementsOutput(...) rejects the items
        ELSE [state |-> [state EXCEPT !.requirements_output = Some(requirements),
                                      !.messages = Append(@, "Requirements: 5"),
                                      !.regenerate_flag = None],
              raised |-> FALSE]

RisksExceptPath(state) ==
    IF IsNone(state.requirements_output)
    THEN [state |-> state, raised |-> TRUE]   \* None.requirements in the handler
    ELSE [state |-> [state EXCEPT !.risks_output =
                        Some(generate_fallback_risks(state.requirements_output[1]))],
          raised |-> FALSE]

generate_risks(state, reply) ==
    LET parsed == ParseReply(reply)
        risks == IF parsed.type = "dict" /\ parsed.key = "Risks"
                 THEN parsed.items ELSE <<>>
    IN  IF IsNone(state.requirements_output) \/ reply.kind = "raise" \/ parsed.raised
        THEN RisksExceptPath(state)
        ELSE [state |-> [state EXCEPT !.risks_output =
                            Some(IF Len(risks) # StageSize
                                 THEN generate_fallback_risks(state.requirements_output[1])
                                 ELSE risks),
                                      !.messages = Append(@, "Risks: 5"),
                                      !.regenerate_flag = None],
              raised |-> FALSE]

\* a test case: a json object of the reply, or a dictionary of the fallback
TestCase(test_id, description, test_type) ==
    [test_id |-> test_id, description |-> description, test_type |-> test_type]

\* nodes.py:546-572
generate_fallback_test_cases(requirement, requirement_index) ==
    LET base_id == "TC_REQ" \o ToString(requirement_index + 1)
    IN  << TestCase(base_id \o "_001",
                    "Basic functionality test for: "
                       \o Prefix(requirement, TestQuoteLen) \o "...",
                    "Functional"),
           TestCase(base_id \o "_002",
                    "Integration test for: " \o Prefix(requirement, TestQuoteLen) \o "...",
                    "Integration") >>

\* nodes.py:524-529: state["test_cases_output"][requirement_index] = test_cases,
\* the dictionary being created when the state has none
StoreTestCases(state, requirement_index, test_cases) ==
    LET old == IF IsNone(state.test_cases_output) THEN <<>> ELSE state.test_cases_output[1]
    IN  [state EXCEPT !.test_cases_output =
            Some([i \in DOMAIN old \cup {requirement_index} |->
                     IF i = requirement_index THEN test_cases ELSE old[i]])]

\* nodes.py:458-544
generate_test_cases(state, requirement_index, reply) ==
    IF IsNone(state.requirements_output)
          \/ requirement_index >= Len(state.requirements_output[1])
    THEN [state |-> state, raised |-> FALSE]
    ELSE IF IndexError(state.requirements_output[1], requirement_index)
    THEN [state |-> state, raised |-> TRUE]
    ELSE LET reqs == state.requirements_output[1]
             requirement == reqs[PyPos(reqs, requirement_index)]
             parsed == ParseReply(reply)
             fallback == generate_fallback_test_cases(requirement, requirement_index)
             test_cases == IF parsed.type # "list" \/ Len(parsed.items) < MinTestCases
                           THEN fallback ELSE parsed.items
         IN  IF reply.kind = "raise" \/ parsed.raised
             THEN [state |-> StoreTestCases(state, requirement_index, fallback),
                   raised |-> FALSE]
             ELSE [state |-> [StoreTestCases(state, requirement_index, test_cases)
                                 EXCEPT !.messages = Append(@,
                                     "Generated " \o ToString(Len(test_cases))
                                        \o " test cases for requirement "
                                        \o ToString(requirement_index + 1))],
                   raised |-> FALSE]

-----------------------------------------------------------------------------
(* Texts and requests the model draws its inputs from *)

ThreadIds == {"p1", "p2"}

\* the description a project is created with
Description == "vehicle safety requirement"

GeneratedKeywords ==
    << "adaptive cruise control", "lane keeping assist", "automatic emergency braking",
       "blind spot detection", "driver drowsiness monitoring" >>

GeneratedRequirements == [i \in 1..StageSize |-> "Generated requirement " \o ToString(i)]

GeneratedRisks == [i \in 1..StageSize |-> "Generated risk " \o ToString(i)]

\* what the llm can answer to the keyword, requirement and risk prompts
KeywordReplies ==
    { ReplyArray(GeneratedKeywords), ReplyArray(SubSeq(GeneratedKeywords, 1, 4)),
      ReplyObject("keywords", GeneratedKeywords), ReplyArrayNonStr,
      ReplyGarbage, ReplyProse, ReplyRaise }

RequirementReplies ==
    { ReplyArray(GeneratedRequirements), ReplyArray(SubSeq(GeneratedRequirements, 1, 4)),
      ReplyArray(<<>>), ReplyObject("requirements", GeneratedRequirements),
      ReplyArrayNonStr, ReplyGarbage, ReplyProse, ReplyRaise }

RiskReplies ==
    { ReplyObject("Risks", GeneratedRisks), ReplyObject("Risks", SubSeq(GeneratedRisks, 1, 3)),
      ReplyObject("risks", GeneratedRisks), ReplyArray(GeneratedRisks),
      ReplyGarbage, ReplyProse, ReplyRaise }

-----------------------------------------------------------------------------
(* The session map and the record of the last request *)

\* creation.py:20-29: the state dictionary a project starts with
NewState(thread_id, description) ==
    [ requirement_description |-> description,
      messages |-> <<>>,
      keyword_output |-> None,
      selected_keyword |-> None,
      requirements_output |-> None,
      risks_output |-> None,
      project_name |-> thread_id,
      regenerate_flag |-> None,
      test_cases_output |-> None ]   \* the dictionary has no such key

HasSession(t) == ~IsNone(workflow_states[t])

Session(t) == workflow_states[t][1]

\* the request that was served last and its response: the route, the thread,
\* the HTTP status, the indexes of the request, the calls the handler made of
\* the stage functions (calls) and of the single-item functions (regens), and
\* whether it repeats the request before it, both having succeeded
Served(op, t, status, detail, indexes, calls, regens) ==
    [ op |-> op, thread |-> t, status |-> status, detail |-> detail, type |-> "",
      indexes |-> indexes, calls |-> calls, regens |-> regens,
      again |-> (status = 200 /\ last.op = op /\ last.thread = t /\ last.status = 200) ]

\* the same, of a request that names an item type or a regeneration type
ServedAs(type, served) == [served EXCEPT !.type = type]

Call(fn, reply, degraded) ==
    [ fn |-> fn,
      llm |-> IF reply.kind = "raise" THEN "error" ELSE IF degraded THEN "invalid" ELSE "valid" ]

\* whether the reply makes the stage substitute its fallback
KeywordsDegraded(reply) == reply.kind # "array" \/ Len(reply.items) # StageSize

RisksDegraded(reply) ==
    ~(reply.kind = "object" /\ reply.key = "Risks" /\ Len(reply.items) = StageSize)

\* the handler may append n messages to the session of t
CanLog(t, n) == HasSession(t) => Len(Session(t).messages) + n <= MaxMessages

EmptyGraph ==
    [ projects |-> {}, requirements |-> {}, risks |-> {},
      has_requirement |-> {}, has_risk |-> {},
      test_cases |-> {}, verified_by |-> {} ]

Init ==
    /\ workflow_states = [t \in ThreadIds |-> None]
    /\ graph_db = EmptyGraph
    /\ clock = 0
    /\ last = [ op |-> "none", thread |-> "p1", status |-> 0, detail |-> "", type |-> "",
                indexes |-> <<>>, calls |-> <<>>, regens |-> <<>>, again |-> FALSE ]

-----------------------------------------------------------------------------
(* api/routes/project/creation.py *)

\* the create that runs the keyword stage on the state the thread already has:
\* what the session held stays in it
create_project_keeping(t, reply) ==
    LET r == generate_keywords(IF HasSession(t) THEN Session(t) ELSE NewState(t, Description),
                               reply)
    IN  /\ workflow_states' = [workflow_states EXCEPT ![t] = Some(r.state)]
        /\ last' = Served("create", t, 200, "keywords_generated", <<>>,
                          <<Call("generate_keywords", reply, KeywordsDegraded(reply))>>, <<>>)
        /\ UNCHANGED <<graph_db, clock>>

\* POST /create
create_project(t, reply) ==
    LET r == generate_keywords(NewState(t, Description), reply)
    IN  /\ workflow_states' = [workflow_states EXCEPT ![t] = Some(r.state)]
        /\ last' = Served("create", t, 200, "keywords_generated", <<>>,
                          <<Call("generate_keywords", reply, KeywordsDegraded(reply))>>, <<>>)
        /\ UNCHANGED <<graph_db, clock>>

\* POST /select-keyword
select_keyword(t, keyword_index, reqReply, riskReply) ==
    /\ CanLog(t, 2)
    /\ IF ~HasSession(t)
       THEN /\ last' = Served("select_keyword", t, 404, "Thread not found", <<keyword_index>>, <<>>, <<>>)
            /\ UNCHANGED workflow_states
       ELSE IF IsNone(Session(t).keyword_output)
       THEN /\ last' = Served("select_keyword", t, 400, "No keywords available", <<keyword_index>>, <<>>, <<>>)
            /\ UNCHANGED workflow_states
       ELSE IF keyword_index >= Len(Session(t).keyword_output[1])
       THEN /\ last' = Served("select_keyword", t, 400, "Invalid keyword index", <<keyword_index>>, <<>>, <<>>)
            /\ UNCHANGED workflow_states
       ELSE LET s1 == [Session(t) EXCEPT !.selected_keyword =
                          Some(Session(t).keyword_output[1][PyPos(Session(t).keyword_output[1], keyword_index)])]
                r2 == generate_requirements(s1, reqReply)
                r3 == generate_risks(r2.state, riskReply)
                s3 == IF r3.raised
                      THEN [r3.state EXCEPT !.risks_output =
                               Some([i \in 1..StageSize |-> "Risk generation failed"])]
                      ELSE r3.state
            IN  /\ workflow_states' = [workflow_states EXCEPT ![t] = Some(s3)]
                /\ last' = Served("select_keyword", t, 200,
                                  IF r3.raised THEN "Requirements generated (risks failed)"
                                  ELSE "Requirements and risks generated",
                                  <<keyword_index>>,
                                  << Call("generate_requirements", reqReply, KeywordsDegraded(reqReply)),
                                     Call("generate_risks", riskReply, RisksDegraded(riskReply)) >>,
                                  <<>>)
    /\ UNCHANGED <<graph_db, clock>>

-----------------------------------------------------------------------------
(* api/routes/project/regeneration.py *)

\* POST /regenerate
regenerate(t, regenerate_type, reqReply, riskReply) ==
    /\ CanLog(t, 2)
    /\ IF ~HasSession(t)
       THEN /\ last' = ServedAs(regenerate_type,
                        Served("regenerate", t, 404, "Thread not found", <<>>, <<>>, <<>>))
            /\ UNCHANGED workflow_states
       ELSE IF IsNone(Session(t).selected_keyword)
       THEN /\ last' = ServedAs(regenerate_type,
                        Served("regenerate", t, 400, "No keyword selected", <<>>, <<>>, <<>>))
            /\ UNCHANGED workflow_states
       ELSE LET doReq == regenerate_type \in {"requirements", "both"}
                doRisk == regenerate_type \in {"risks", "both"}
                r1 == IF doReq THEN generate_requirements(Session(t), reqReply)
                      ELSE [state |-> Session(t), raised |-> FALSE]
                r2 == IF doRisk THEN generate_risks(r1.state, riskReply)
                      ELSE [state |-> r1.state, raised |-> FALSE]
                calls == (IF doReq
                          THEN <<Call("generate_requirements", reqReply, KeywordsDegraded(reqReply))>>
                          ELSE <<>>)
                         \o (IF doRisk
                             THEN <<Call("generate_risks", riskReply, RisksDegraded(riskReply))>>
                             ELSE <<>>)
            IN  /\ workflow_states' = [workflow_states EXCEPT ![t] = Some(r2.state)]
                /\ last' = ServedAs(regenerate_type,
                            Served("regenerate", t, IF r2.raised THEN 500 ELSE 200,
                                   IF r2.raised THEN "exception" ELSE "regenerated",
                                   <<>>, calls, <<>>))
    /\ UNCHANGED <<graph_db, clock>>

\* the single-item regeneration without the test of the length at
\* nodes.py:330: whatever text the reply holds is returned
generate_single_requirement_any_length(state, index, reply) ==
    IF IsNone(state.requirements_output)
    THEN [raised |-> TRUE, value |-> ""]
    ELSE LET reqs == state.requirements_output[1]
             original == IF index < Len(reqs) THEN reqs[PyPos(reqs, index)] ELSE ""
         IN  IF index < Len(reqs) /\ IndexError(reqs, index)
             THEN [raised |-> TRUE, value |-> ""]
             ELSE IF reply.kind = "raise"
             THEN [raised |-> FALSE, value |-> original]
             ELSE [raised |-> FALSE, value |-> CleanedContent(reply)]

\* nodes.py:288-340: one requirement regenerated with feedback
generate_single_requirement_with_feedback(state, index, reply) ==
    IF IsNone(state.requirements_output)
    THEN [raised |-> TRUE, value |-> ""]
    ELSE LET reqs == state.requirements_output[1]
             original == IF index < Len(reqs) THEN reqs[PyPos(reqs, index)] ELSE ""
         IN  IF index < Len(reqs) /\ IndexError(reqs, index)
             THEN [raised |-> TRUE, value |-> ""]
             ELSE IF reply.kind = "raise"
             THEN [raised |-> FALSE, value |-> original]
             ELSE IF Len(CleanedContent(reply)) < MinItemLen
             THEN [raised |-> FALSE, value |-> original]
             ELSE [raised |-> FALSE, value |-> CleanedContent(reply)]

\* nodes.py:342-395: one risk regenerated with feedback
generate_single_risk_with_feedback(state, index, reply) ==
    IF IsNone(state.risks_output)
    THEN [raised |-> TRUE, value |-> ""]
    ELSE LET risks == state.risks_output[1]
             original == IF index < Len(risks) THEN risks[PyPos(risks, index)] ELSE ""
         IN  IF index < Len(risks) /\ IndexError(risks, index)
             THEN [raised |-> TRUE, value |-> ""]
             ELSE IF IsNone(state.requirements_output)
             THEN [raised |-> TRUE, value |-> ""]
             ELSE IF index < Len(state.requirements_output[1])
                     /\ IndexError(state.requirements_output[1], index)
             THEN [raised |-> FALSE, value |-> original]   \* the except path returns the risk
             ELSE IF reply.kind = "raise"
             THEN [raised |-> FALSE, value |-> original]
             ELSE IF Len(CleanedContent(reply)) < MinItemLen
             THEN [raised |-> FALSE, value |-> original]
             ELSE [raised |-> FALSE, value |-> CleanedContent(reply)]

\* nodes.py:294 and 349: the requirement text the prompt of a single-item
\* regeneration is filled with
PromptRequirement(state, index) ==
    IF IsNone(state.requirements_output) THEN ""
    ELSE LET reqs == state.requirements_output[1]
         IN  IF index < Len(reqs) /\ ~IndexError(reqs, index)
             THEN reqs[PyPos(reqs, index)] ELSE ""

\* one call of a single-item regeneration: the function, the index, the
\* requirement text its prompt was given, and whether the handler replaced
\* the item
Regen(fn, index, changed, context) ==
    [fn |-> fn, index |-> index, changed |-> changed, context |-> context]

\* the state dictionary handed to the regeneration of the risks of the changed
\* requirements as it was before the requirements were regenerated
CascadeInputBefore(before, after) == before

\* regeneration.py:116 and 131: the state dictionary handed to the
\* regeneration of the risks of the changed requirements holds the
\* requirements the loop before it has set
CascadeInput(before, after) == after

\* regeneration.py:100-116: the loop over request.indexes for requirements;
\* acc holds current_requirements, updated_requirement_indexes and the calls made
RECURSIVE FeedbackRequirementLoop(_, _, _, _, _)
FeedbackRequirementLoop(state, indexes, replies, k, acc) ==
    IF k > Len(indexes) THEN acc
    ELSE LET idx == indexes[k]
             r == generate_single_requirement_with_feedback(state, idx, replies[k])
             changed == ~r.raised /\ r.value # "" /\ r.value # acc.items[PyPos(acc.items, idx)]
         IN  FeedbackRequirementLoop(state, indexes, replies, k + 1,
                IF idx < Len(acc.items)
                THEN [ items |-> IF changed THEN ListSet(acc.items, idx, r.value) ELSE acc.items,
                       updated |-> IF changed THEN Append(acc.updated, idx) ELSE acc.updated,
                       regens |-> Append(acc.regens, Regen("requirement", idx, changed,
                                                          PromptRequirement(state, idx))) ]
                ELSE acc)

\* regeneration.py:127-142 and 161-177: the loop that regenerates risks
RECURSIVE FeedbackRiskLoop(_, _, _, _, _)
FeedbackRiskLoop(state, indexes, replies, k, acc) ==
    IF k > Len(indexes) THEN acc
    ELSE LET idx == indexes[k]
             r == generate_single_risk_with_feedback(state, idx, replies[k])
             changed == ~r.raised /\ r.value # "" /\ r.value # acc.items[PyPos(acc.items, idx)]
         IN  FeedbackRiskLoop(state, indexes, replies, k + 1,
                IF idx < Len(acc.items)
                THEN [ items |-> IF changed THEN ListSet(acc.items, idx, r.value) ELSE acc.items,
                       updated |-> IF changed THEN Append(acc.updated, idx) ELSE acc.updated,
                       regens |-> Append(acc.regens, Regen("risk", idx, changed,
                                                          PromptRequirement(state, idx))) ]
                ELSE acc)

\* regeneration.py:65-186: what the handler leaves in the state dictionary, the
\* calls it made and whether it ended by an exception
FeedbackOutcome(t, state, regenerate_type, indexes, reqReplies, riskReplies) ==
    LET s0 == IF IsNone(state.selected_keyword)
              THEN [state EXCEPT !.selected_keyword = Some(t)] ELSE state
    IN  IF regenerate_type = "requirement"
        THEN IF IsNone(s0.requirements_output)
             THEN [state |-> s0, status |-> 400, detail |-> "No requirements available", regens |-> <<>>]
             ELSE LET current_risks == IF IsNone(s0.risks_output) THEN <<>> ELSE s0.risks_output[1]
                      a == FeedbackRequirementLoop(s0, indexes, reqReplies, 1,
                              [items |-> s0.requirements_output[1], updated |-> <<>>, regens |-> <<>>])
                      s1 == [s0 EXCEPT !.requirements_output = Some(a.items)]
                      b == FeedbackRiskLoop(CascadeInput(s0, s1), a.updated, riskReplies, 1,
                              [items |-> current_risks, updated |-> <<>>, regens |-> <<>>])
                  IN  IF IsNone(s1.risks_output)
                      THEN [state |-> s1, status |-> 500, detail |-> "exception",
                            regens |-> a.regens \o b.regens]
                      ELSE [state |-> IF a.updated = <<>> THEN s1
                                      ELSE [s1 EXCEPT !.risks_output = Some(b.items)],
                            status |-> 200, detail |-> "regenerated",
                            regens |-> a.regens \o b.regens]
        ELSE IF regenerate_type = "risks"
        THEN IF IsNone(s0.risks_output)
             THEN [state |-> s0, status |-> 400, detail |-> "No risks available", regens |-> <<>>]
             ELSE LET b == FeedbackRiskLoop(s0, indexes, riskReplies, 1,
                              [items |-> s0.risks_output[1], updated |-> <<>>, regens |-> <<>>])
                      s1 == [s0 EXCEPT !.risks_output = Some(b.items)]
                  IN  IF IsNone(s1.requirements_output)
                      THEN [state |-> s1, status |-> 500, detail |-> "exception", regens |-> b.regens]
                      ELSE [state |-> s1, status |-> 200, detail |-> "regenerated", regens |-> b.regens]
        ELSE IF IsNone(s0.requirements_output) \/ IsNone(s0.risks_output)
             THEN [state |-> s0, status |-> 500, detail |-> "exception", regens |-> <<>>]
             ELSE [state |-> s0, status |-> 200, detail |-> "regenerated", regens |-> <<>>]

\* POST /regenerate-with-feedback
regenerate_with_feedback(t, regenerate_type, indexes, reqReplies, riskReplies) ==
    /\ IF ~HasSession(t)
       THEN /\ last' = ServedAs(regenerate_type,
                        Served("regenerate_with_feedback", t, 404, "Thread not found",
                               indexes, <<>>, <<>>))
            /\ UNCHANGED workflow_states
       ELSE LET o == FeedbackOutcome(t, Session(t), regenerate_type, indexes, reqReplies, riskReplies)
            IN  /\ workflow_states' = [workflow_states EXCEPT ![t] = Some(o.state)]
                /\ last' = ServedAs(regenerate_type,
                            Served("regenerate_with_feedback", t, o.status, o.detail,
                                   indexes, <<>>, o.regens))
    /\ UNCHANGED <<graph_db, clock>>

\* regeneration.py:234-236 and 287-289: current[idx] = new[idx] for the requested
\* indexes; raised when the request holds no list or a subscript is out of range
RECURSIVE ReplaceSelected(_, _, _, _)
ReplaceSelected(current, fresh, indexes, k) ==
    IF k > Len(indexes) THEN [raised |-> FALSE, items |-> current]
    ELSE LET idx == indexes[k]
         IN  IF idx < Len(current) /\ idx < Len(fresh)
             THEN IF IndexError(current, idx) \/ IndexError(fresh, idx)
                  THEN [raised |-> TRUE, items |-> current]
                  ELSE ReplaceSelected(ListSet(current, idx, fresh[PyPos(fresh, idx)]),
                                       fresh, indexes, k + 1)
             ELSE ReplaceSelected(current, fresh, indexes, k + 1)

\* the indexes of a request for the handler's record: <<>> when the field is None
Requested(indexes) == IF IsNone(indexes) THEN <<>> ELSE indexes[1]

\* POST /regenerate-requirements; requirement_indexes is Optional[List[int]]
regenerate_requirements(t, requirement_indexes, reply) ==
    /\ CanLog(t, 1)
    /\ IF ~HasSession(t)
       THEN /\ last' = Served("regenerate_requirements", t, 404, "Thread not found",
                              Requested(requirement_indexes), <<>>, <<>>)
            /\ UNCHANGED workflow_states
       ELSE IF IsNone(Session(t).selected_keyword)
       THEN /\ last' = Served("regenerate_requirements", t, 400, "No keyword selected",
                              Requested(requirement_indexes), <<>>, <<>>)
            /\ UNCHANGED workflow_states
       ELSE IF IsNone(Session(t).requirements_output)
       THEN /\ last' = Served("regenerate_requirements", t, 400, "No requirements available",
                              Requested(requirement_indexes), <<>>, <<>>)
            /\ UNCHANGED workflow_states
       ELSE LET current == Session(t).requirements_output[1]
                g == generate_requirements(Session(t), reply)
                m == IF IsNone(requirement_indexes)
                     THEN [raised |-> TRUE, items |-> current]
                     ELSE ReplaceSelected(current, g.state.requirements_output[1],
                                          requirement_indexes[1], 1)
                calls == <<Call("generate_requirements", reply, KeywordsDegraded(reply))>>
            IN  IF m.raised
                THEN /\ workflow_states' = [workflow_states EXCEPT ![t] = Some(g.state)]
                     /\ last' = Served("regenerate_requirements", t, 500, "exception",
                                       Requested(requirement_indexes), calls, <<>>)
                ELSE /\ workflow_states' = [workflow_states EXCEPT ![t] =
                            Some([g.state EXCEPT !.requirements_output = Some(m.items)])]
                     /\ last' = Served("regenerate_requirements", t, 200, "regenerated",
                                       Requested(requirement_indexes), calls, <<>>)
    /\ UNCHANGED <<graph_db, clock>>

\* POST /regenerate-risks; risk_indexes is Optional[List[int]]
regenerate_risks(t, risk_indexes, reply) ==
    /\ CanLog(t, 1)
    /\ IF ~HasSession(t)
       THEN /\ last' = Served("regenerate_risks", t, 404, "Thread not found",
                              Requested(risk_indexes), <<>>, <<>>)
            /\ UNCHANGED workflow_states
       ELSE IF IsNone(Session(t).selected_keyword)
       THEN /\ last' = Served("regenerate_risks", t, 400, "No keyword selected",
                              Requested(risk_indexes), <<>>, <<>>)
            /\ UNCHANGED workflow_states
       ELSE IF IsNone(Session(t).risks_output)
       THEN /\ last' = Served("regenerate_risks", t, 400, "No risks available",
                              Requested(risk_indexes), <<>>, <<>>)
            /\ UNCHANGED workflow_states
       ELSE LET current == Session(t).risks_output[1]
                g == generate_risks(Session(t), reply)
                m == IF IsNone(risk_indexes)
                     THEN [raised |-> TRUE, items |-> current]
                     ELSE ReplaceSelected(current, g.state.risks_output[1], risk_indexes[1], 1)
                calls == <<Call("generate_risks", reply, RisksDegraded(reply))>>
            IN  IF g.raised \/ m.raised
                THEN /\ workflow_states' = [workflow_states EXCEPT ![t] = Some(g.state)]
                     /\ last' = Served("regenerate_risks", t, 500, "exception",
                                       Requested(risk_indexes), calls, <<>>)
                ELSE /\ workflow_states' = [workflow_states EXCEPT ![t] =
                            Some([g.state EXCEPT !.risks_output = Some(m.items)])]
                     /\ last' = Served("regenerate_risks", t, 200, "regenerated",
                                       Requested(risk_indexes), calls, <<>>)
    /\ UNCHANGED <<graph_db, clock>>

-----------------------------------------------------------------------------
(* api/routes/project/state_management.py *)

\* state_management.py:62-79: what POST /update-item leaves in the state dictionary
UpdateOutcome(state, type, index, new_content, update_related, reply) ==
    IF type = "requirement"
    THEN IF IsNone(state.requirements_output) \/ index >= Len(state.requirements_output[1])
         THEN [state |-> state, status |-> 400, detail |-> "Invalid requirement index", calls |-> <<>>]
         ELSE IF IndexError(state.requirements_output[1], index)
         THEN [state |-> state, status |-> 500, detail |-> "exception", calls |-> <<>>]
         ELSE LET s1 == [state EXCEPT !.requirements_output =
                            Some(ListSet(state.requirements_output[1], index, new_content))]
              IN  IF update_related /\ ~IsNone(s1.risks_output)
                  THEN [state |-> generate_risks(s1, reply).state, status |-> 200,
                        detail |-> "updated",
                        calls |-> <<Call("generate_risks", reply, RisksDegraded(reply))>>]
                  ELSE [state |-> s1, status |-> 200, detail |-> "updated", calls |-> <<>>]
    ELSE IF type = "risk"
    THEN IF IsNone(state.risks_output) \/ index >= Len(state.risks_output[1])
         THEN [state |-> state, status |-> 400, detail |-> "Invalid risk index", calls |-> <<>>]
         ELSE IF IndexError(state.risks_output[1], index)
         THEN [state |-> state, status |-> 500, detail |-> "exception", calls |-> <<>>]
         ELSE [state |-> [state EXCEPT !.risks_output =
                             Some(ListSet(state.risks_output[1], index, new_content))],
               status |-> 200, detail |-> "updated", calls |-> <<>>]
    ELSE [state |-> state, status |-> 200, detail |-> "updated", calls |-> <<>>]

\* POST /update-item
update_item(t, type, index, new_content, update_related, reply) ==
    /\ CanLog(t, 1)
    /\ IF ~HasSession(t)
       THEN /\ last' = ServedAs(type,
                        Served("update_item", t, 404, "Thread not found", <<index>>, <<>>, <<>>))
            /\ UNCHANGED workflow_states
       ELSE LET o == UpdateOutcome(Session(t), type, index, new_content, update_related, reply)
            IN  /\ workflow_states' = [workflow_states EXCEPT ![t] = Some(o.state)]
                /\ last' = ServedAs(type,
                            Served("update_item", t, o.status, o.detail, <<index>>, o.calls, <<>>))
    /\ UNCHANGED <<graph_db, clock>>

-----------------------------------------------------------------------------
(* api/routes/test_case_routes.py *)

\* the stage function was entered with an index that names a requirement, so
\* that it called the llm
TestCaseCalls(state, requirement_index, reply) ==
    IF requirement_index >= Len(state.requirements_output[1])
          \/ IndexError(state.requirements_output[1], requirement_index)
    THEN <<>>
    ELSE <<Call("generate_test_cases", reply,
                reply.kind # "fenced_array" \/ Len(reply.items) < MinTestCases)>>

\* the route without the test that the thread is known: a session is made for
\* a thread that has none
generate_test_cases_any_thread(t, requirement_index, reply) ==
    /\ CanLog(t, 1)
    /\ LET state == IF HasSession(t) THEN Session(t) ELSE NewState(t, Description)
       IN  IF IsNone(state.requirements_output)
           THEN /\ last' = Served("generate_test_cases", t, 400, "No requirements available",
                                  <<requirement_index>>, <<>>, <<>>)
                /\ workflow_states' = [workflow_states EXCEPT ![t] = Some(state)]
           ELSE LET r == generate_test_cases(state, requirement_index, reply)
                IN  /\ workflow_states' = [workflow_states EXCEPT ![t] = Some(r.state)]
                    /\ last' = Served("generate_test_cases", t,
                                      IF r.raised THEN 500 ELSE 200,
                                      IF r.raised THEN "exception" ELSE "test_cases_generated",
                                      <<requirement_index>>,
                                      TestCaseCalls(state, requirement_index, reply), <<>>)
    /\ UNCHANGED <<graph_db, clock>>

\* POST /generate-test-cases (test_case_routes.py:12-46)
generate_test_cases_route(t, requirement_index, reply) ==
    /\ CanLog(t, 1)
    /\ IF ~HasSession(t)
       THEN /\ last' = Served("generate_test_cases", t, 404, "Thread not found",
                              <<requirement_index>>, <<>>, <<>>)
            /\ UNCHANGED workflow_states
       ELSE IF IsNone(Session(t).requirements_output)
       THEN /\ last' = Served("generate_test_cases", t, 400, "No requirements available",
                              <<requirement_index>>, <<>>, <<>>)
            /\ UNCHANGED workflow_states
       ELSE LET r == generate_test_cases(Session(t), requirement_index, reply)
            IN  /\ workflow_states' = [workflow_states EXCEPT ![t] = Some(r.state)]
                /\ last' = Served("generate_test_cases", t,
                                  IF r.raised THEN 500 ELSE 200,
                                  IF r.raised THEN "exception" ELSE "test_cases_generated",
                                  <<requirement_index>>,
                                  TestCaseCalls(Session(t), requirement_index, reply), <<>>)
    /\ UNCHANGED <<graph_db, clock>>

-----------------------------------------------------------------------------
(* tools/tools.py: the graph database.  graph_db holds the Project,        *)
(* Requirement and Risk nodes as records of their properties and the       *)
(* HAS_REQUIREMENT and HAS_RISK relationships as pairs.                    *)

ProjectNode(name, keyword, updated_at) ==
    [name |-> name, keyword |-> keyword, updated_at |-> updated_at]

ItemNode(description, project, index) ==
    [description |-> description, project |-> project, index |-> index]

ProjectExists(g, name) == \E p \in g.projects : p.name = name

\* CREATE in place of MERGE: a Project node is added, the one there is stays
CreateProject(g, name, keyword, now) ==
    [g EXCEPT !.projects = @ \cup {ProjectNode(name, keyword, now)}]

\* tools.py:29-34: MERGE (p:Project {name}) SET p.keyword, p.updated_at = datetime()
MergeProject(g, name, keyword, now) ==
    [g EXCEPT !.projects = {p \in @ : p.name # name} \cup {ProjectNode(name, keyword, now)}]

\* tools.py:38-47: MATCH the project, MERGE the Requirement node on all three
\* properties, MERGE the HAS_REQUIREMENT relationship
MergeRequirement(g, name, idx, desc) ==
    IF ~ProjectExists(g, name) THEN g
    ELSE [g EXCEPT !.requirements = @ \cup {ItemNode(desc, name, idx)},
                   !.has_requirement = @ \cup {<<name, ItemNode(desc, name, idx)>>}]

\* the Risk is linked to the Requirement nodes of the index whatever project
\* they belong to
MergeRiskAnyProject(g, name, idx, desc) ==
    LET matched == {r \in g.requirements : r.index = idx}
    IN  IF ~ProjectExists(g, name) \/ matched = {} THEN g
        ELSE [g EXCEPT !.risks = @ \cup {ItemNode(desc, name, idx)},
                       !.has_risk = @ \cup {<<r, ItemNode(desc, name, idx)>> : r \in matched}]

\* tools.py:51-61: MATCH the project and every Requirement of that project and
\* index, MERGE the Risk node on all three properties, MERGE HAS_RISK from each
MergeRisk(g, name, idx, desc) ==
    LET matched == {r \in g.requirements : r.project = name /\ r.index = idx}
    IN  IF ~ProjectExists(g, name) \/ matched = {} THEN g
        ELSE [g EXCEPT !.risks = @ \cup {ItemNode(desc, name, idx)},
                       !.has_risk = @ \cup {<<r, ItemNode(desc, name, idx)>> : r \in matched}]

Query(kind, idx, desc) == [kind |-> kind, idx |-> idx, desc |-> desc]

\* the graph_db.query calls of one save_to_neo4j, in the order they are made
SaveQueries(requirements, risks) ==
    <<Query("project", 0, "")>>
    \o [i \in 1..Len(requirements) |-> Query("requirement", i, requirements[i])]
    \o [i \in 1..Len(risks) |-> Query("risk", i, risks[i])]

RunQuery(g, q, name, keyword, now) ==
    CASE q.kind = "project" -> MergeProject(g, name, keyword, now)
      [] q.kind = "requirement" -> MergeRequirement(g, name, q.idx, q.desc)
      [] q.kind = "risk" -> MergeRisk(g, name, q.idx, q.desc)

RECURSIVE RunQueries(_, _, _, _, _, _)
RunQueries(g, queries, n, name, keyword, now) ==
    IF n = 0 THEN g
    ELSE RunQuery(RunQueries(g, queries, n - 1, name, keyword, now),
                  queries[n], name, keyword, now)

\* no query of the save raises
NoFailure == None

\* the save in one transaction: when a query raises, what the queries before
\* it wrote is rolled back
save_to_neo4j_in_transaction(g, requirements, risks, project_name, keyword, now, failAt) ==
    LET queries == SaveQueries(requirements, risks)
    IN  IF IsNone(failAt) \/ failAt[1] >= Len(queries)
        THEN [graph |-> RunQueries(g, queries, Len(queries), project_name, keyword, now),
              result |-> "Successfully saved to Neo4j", ran |-> Len(queries)]
        ELSE [graph |-> g, result |-> "Error", ran |-> failAt[1]]

\* tools.py:17-68: failAt holds the number of queries that run before one
\* raises; ran is the number of queries that have run
save_to_neo4j(g, requirements, risks, project_name, keyword, now, failAt) ==
    LET queries == SaveQueries(requirements, risks)
    IN  IF IsNone(failAt) \/ failAt[1] >= Len(queries)
        THEN [graph |-> RunQueries(g, queries, Len(queries), project_name, keyword, now),
              result |-> "Successfully saved to Neo4j", ran |-> Len(queries)]
        ELSE [graph |-> RunQueries(g, queries, failAt[1], project_name, keyword, now),
              result |-> "Error", ran |-> failAt[1]]

\* tools.py:63-68: the numbers a result of save_to_neo4j states: the numbers of
\* requirements and risks are written to the log only, the text of a success is
\* the same for every save and the text of a failure holds the error
CountsIn(result) ==
    CASE result = "Successfully saved to Neo4j" -> None
      [] result = "Error" -> None

\* one run of save_to_neo4j: the string it returned and the queries that ran
SaveCall(saved) ==
    [fn |-> "save_to_neo4j", llm |-> "none", result |-> saved.result, ran |-> saved.ran]

\* the save that runs the tool a second time and logs both results
call_save_tool_twice(state, g, now, failAt) ==
    IF IsNone(state.selected_keyword)
    THEN [state |-> state, graph |-> g, raised |-> TRUE, calls |-> <<>>]
    ELSE LET s == save_to_neo4j(g, state.requirements_output[1], state.risks_output[1],
                                state.project_name, state.selected_keyword[1], now, failAt)
             again == save_to_neo4j(s.graph, state.requirements_output[1], state.risks_output[1],
                                    state.project_name, state.selected_keyword[1], now, failAt)
         IN  [state |-> [state EXCEPT !.messages = Append(Append(@, s.result), again.result)],
              graph |-> again.graph, raised |-> FALSE,
              calls |-> <<SaveCall(s), SaveCall(again)>>]

\* nodes.py:439-456; the tool rejects a keyword that is None before it runs
call_save_tool(state, g, now, failAt) ==
    IF IsNone(state.selected_keyword)
    THEN [state |-> state, graph |-> g, raised |-> TRUE, calls |-> <<>>]
    ELSE LET s == save_to_neo4j(g, state.requirements_output[1], state.risks_output[1],
                                state.project_name, state.selected_keyword[1], now, failAt)
         IN  [state |-> [state EXCEPT !.messages = Append(@, s.result)],
              graph |-> s.graph, raised |-> FALSE, calls |-> <<SaveCall(s)>>]

\* the graph stays within the bound of the model
WithinBound(g) ==
    /\ Cardinality(g.requirements) <= MaxNodes
    /\ Cardinality(g.risks) <= MaxNodes

\* the values datetime() can return now
Times == {n \in {clock, clock + 1} : n <= MaxClock}

-----------------------------------------------------------------------------
(* api/routes/project/saving.py *)

\* POST /save
save_project(t, now, failAt) ==
    /\ CanLog(t, 1)
    /\ IF ~HasSession(t)
       THEN /\ last' = Served("save", t, 404, "Thread not found", <<>>, <<>>, <<>>)
            /\ UNCHANGED <<workflow_states, graph_db, clock>>
       ELSE IF IsNone(Session(t).requirements_output) \/ IsNone(Session(t).risks_output)
       THEN /\ last' = Served("save", t, 400, "Generate requirements/risks first", <<>>, <<>>, <<>>)
            /\ UNCHANGED <<workflow_states, graph_db, clock>>
       ELSE LET r == call_save_tool(Session(t), graph_db, now, failAt)
            IN  /\ WithinBound(r.graph)
                /\ workflow_states' = [workflow_states EXCEPT ![t] = Some(r.state)]
                /\ graph_db' = r.graph
                /\ clock' = IF r.raised THEN clock ELSE now
                /\ last' = Served("save", t, IF r.raised THEN 500 ELSE 200,
                                  IF r.raised THEN "exception" ELSE "saved",
                                  <<>>, r.calls, <<>>)

\* POST /save-selected
save_selected_requirements(t, requirements, risks, keyword, now, failAt) ==
    /\ CanLog(t, 1)
    /\ IF ~HasSession(t)
       THEN /\ last' = Served("save_selected", t, 404, "Thread not found", <<>>, <<>>, <<>>)
            /\ UNCHANGED <<workflow_states, graph_db, clock>>
       ELSE IF requirements = <<>> \/ risks = <<>>
       THEN /\ last' = Served("save_selected", t, 400, "No requirements or risks provided",
                              <<>>, <<>>, <<>>)
            /\ UNCHANGED <<workflow_states, graph_db, clock>>
       ELSE IF Len(requirements) # Len(risks)
       THEN /\ last' = Served("save_selected", t, 400, "Requirements and risks count mismatch",
                              <<>>, <<>>, <<>>)
            /\ UNCHANGED <<workflow_states, graph_db, clock>>
       ELSE LET s == save_to_neo4j(graph_db, requirements, risks, t, keyword, now, failAt)
            IN  /\ WithinBound(s.graph)
                /\ workflow_states' = [workflow_states EXCEPT ![t] =
                       Some([Session(t) EXCEPT !.messages =
                                Append(@, "Selected requirements saved: " \o s.result)])]
                /\ graph_db' = s.graph
                /\ clock' = now
                /\ last' = Served("save_selected", t, 200, "saved", <<>>,
                                  <<SaveCall(s)>>, <<>>)

-----------------------------------------------------------------------------
(* api/routes/project/neo4j_operations.py *)

\* a row of the query of lines 95-101; a requirement without a risk has a row
\* whose risk columns are null
Row(r, rk) ==
    [ req_index |-> r.index, requirement |-> r.description,
      risk_index |-> IF IsNone(rk) THEN None ELSE Some(rk[1].index),
      risk |-> IF IsNone(rk) THEN None ELSE Some(rk[1].description) ]

LoadRows(g, name) ==
    UNION { LET linked == {e[2] : e \in {e \in g.has_risk : e[1] = r}}
            IN  IF linked = {} THEN {Row(r, None)}
                ELSE {Row(r, Some(rk)) : rk \in linked}
            : r \in {e[2] : e \in {e \in g.has_requirement : e[1] = name}} }

\* ORDER BY req_index, risk_index (ascending, null last): a is before b
RowBefore(a, b) ==
    \/ a.req_index < b.req_index
    \/ /\ a.req_index = b.req_index
       /\ ~IsNone(a.risk_index)
       /\ (IsNone(b.risk_index) \/ a.risk_index[1] < b.risk_index[1])

\* the orders in which the database may return the rows: rows that tie on the
\* sort keys come in any order
RECURSIVE RowOrders(_)
RowOrders(rows) ==
    IF rows = {} THEN {<<>>}
    ELSE UNION { {<<r>> \o rest : rest \in RowOrders(rows \ {r})}
                 : r \in {r \in rows : \A q \in rows : ~RowBefore(q, r)} }

\* neo4j_operations.py:107-121: the first requirement text seen per index, in
\* the order of the sorted indexes
LoadedRequirements(result) ==
    LET keys == {result[i].req_index : i \in 1..Len(result)}
        first(k) == CHOOSE i \in 1..Len(result) :
                       /\ result[i].req_index = k
                       /\ \A j \in 1..(i - 1) : result[j].req_index # k
        RECURSIVE sorted(_)
        sorted(ks) == IF ks = {} THEN <<>>
                      ELSE LET m == CHOOSE k \in ks : \A q \in ks : k <= q
                           IN  <<result[first(m)].requirement>> \o sorted(ks \ {m})
    IN  sorted(keys)

\* neo4j_operations.py:115-121, 134: the risk of every row that has one
RECURSIVE LoadedRisks(_)
LoadedRisks(result) ==
    IF result = <<>> THEN <<>>
    ELSE (IF ~IsNone(Head(result).risk) /\ Head(result).risk[1] # ""
          THEN <<Head(result).risk[1]>> ELSE <<>>)
         \o LoadedRisks(Tail(result))

\* POST /load-from-neo4j; result is the order the rows came in
load_project_from_neo4j(project_name, result) ==
    /\ IF result = <<>>
       THEN /\ last' = Served("load", project_name, 404, "Project not found in Neo4j",
                              <<>>, <<>>, <<>>)
            /\ UNCHANGED workflow_states
       ELSE LET keyword == IF ProjectExists(graph_db, project_name)
                           THEN (CHOOSE p \in graph_db.projects : p.name = project_name).keyword
                           ELSE project_name
                state == [ project_name |-> project_name,
                           requirement_description |-> "Loaded project: " \o project_name,
                           messages |-> <<>>,
                           keyword_output |-> None,
                           selected_keyword |-> Some(keyword),
                           requirements_output |-> Some(LoadedRequirements(result)),
                           risks_output |-> Some(LoadedRisks(result)),
                           regenerate_flag |-> None,
                           test_cases_output |-> None ]
            IN  /\ workflow_states' = [workflow_states EXCEPT ![project_name] = Some(state)]
                /\ last' = Served("load", project_name, 200, "loaded", <<>>, <<>>, <<>>)
    /\ UNCHANGED <<graph_db, clock>>

-----------------------------------------------------------------------------
(* The requests of the model *)

\* replies to the single-item prompts
SingleReplies ==
    { SingleText("\"", "Regenerated item text"), SingleText("", "too short"), SingleRaise }

RequirementRepliesFew == {ReplyArray(GeneratedRequirements), ReplyRaise}

RiskRepliesFew == {ReplyObject("Risks", GeneratedRisks), ReplyRaise}

FeedbackIndexes == {<<1>>, <<1, 1>>, <<4, -1>>, <<7>>}

SelectiveIndexes == {Some(<<2>>), Some(<<-1>>), Some(<<7>>)}

EditIndexes == {1, -1, 7}

EditedText == "Manually edited item text"

\* the request of POST /save-selected: three requirements with their risks
SelectedRequirements == SubSeq(GeneratedRequirements, 1, 3)

SelectedRisks == SubSeq(GeneratedRisks, 1, 3)

-----------------------------------------------------------------------------
(* The stages: a project is created, a keyword selected, and stages are      *)
(* regenerated, under every kind of reply of the llm.                        *)

Create ==
    \E reply \in KeywordReplies : create_project("p1", reply)

SelectKeyword ==
    \E k \in {0, 4}, q \in RequirementReplies, r \in RiskReplies :
        select_keyword("p1", k, q, r)

Regenerate ==
    \E ty \in {"requirements", "risks", "both"}, q \in RequirementReplies, r \in RiskReplies :
        regenerate("p1", ty, q, r)

Next ==
    \/ Create
    \/ SelectKeyword
    \/ Regenerate

Spec == Init /\ [][Next]_vars

-----------------------------------------------------------------------------
(* Regeneration and editing of single items of one session.                  *)

CreateFew ==
    create_project("p1", ReplyArray(GeneratedKeywords))

SelectKeywordValid ==
    select_keyword("p1", 0, ReplyArray(GeneratedRequirements), ReplyObject("Risks", GeneratedRisks))

FeedbackRequirement ==
    \E ix \in FeedbackIndexes :
        \E qs \in [1..Len(ix) -> SingleReplies], r \in SingleReplies :
            regenerate_with_feedback("p1", "requirement", ix, qs, [i \in 1..Len(ix) |-> r])

FeedbackRisks ==
    \E ix \in FeedbackIndexes :
        \E rs \in [1..Len(ix) -> SingleReplies] :
            regenerate_with_feedback("p1", "risks", ix, rs, rs)

RegenerateRequirements ==
    \E ix \in SelectiveIndexes, q \in RequirementRepliesFew :
        regenerate_requirements("p1", ix, q)

RegenerateRisks ==
    \E ix \in SelectiveIndexes, r \in RiskRepliesFew :
        regenerate_risks("p1", ix, r)

UpdateItem ==
    \E ty \in {"requirement", "risk"}, i \in EditIndexes, related \in BOOLEAN :
        update_item("p1", ty, i, EditedText, related, ReplyObject("Risks", GeneratedRisks))

RegenerateRisksStage ==
    regenerate("p1", "risks", ReplyRaise, ReplyObject("Risks", GeneratedRisks))

EditRequirement ==
    \E related \in BOOLEAN :
        update_item("p1", "requirement", 1, EditedText, related, ReplyObject("Risks", GeneratedRisks))

NextFeedback ==
    \/ CreateFew
    \/ SelectKeywordValid
    \/ FeedbackRequirement
    \/ FeedbackRisks
    \/ RegenerateRisksStage
    \/ EditRequirement

SpecFeedback == Init /\ [][NextFeedback]_vars

NextSelective ==
    \/ CreateFew
    \/ SelectKeywordValid
    \/ RegenerateRequirements
    \/ RegenerateRisks
    \/ UpdateItem

SpecSelective == Init /\ [][NextSelective]_vars

-----------------------------------------------------------------------------
(* Saving to the graph and loading from it.                                  *)

Save ==
    \E now \in Times : save_project("p1", now, NoFailure)

SaveSelected ==
    \E now \in Times :
        save_selected_requirements("p1", SelectedRequirements, SelectedRisks,
                                   FallbackKeywords[1], now, NoFailure)

Load ==
    \E result \in RowOrders(LoadRows(graph_db, "p1")) :
        load_project_from_neo4j("p1", result)

NextGraph ==
    \/ CreateFew
    \/ SelectKeywordValid
    \/ RegenerateRisksStage
    \/ EditRequirement
    \/ Save
    \/ SaveSelected
    \/ Load

SpecGraph == Init /\ [][NextGraph]_vars

-----------------------------------------------------------------------------
(* graph.py: the workflow graph.  A run of the graph is modelled node by     *)
(* node on the state of the session of its thread; the record of the step    *)
(* served last holds the node that ran (op), the node the graph runs next    *)
(* (detail) and the node the run was entered at (type).                      *)

END == "__end__"

\* graph.py:58: builder.set_entry_point("generate_keywords")
EntryPoint == "generate_keywords"

\* graph.py:13-28
should_regenerate(state) ==
    IF state.regenerate_flag = Some("requirements") THEN "generate_requirements"
    ELSE IF state.regenerate_flag = Some("risks") THEN "generate_risks"
    ELSE IF state.regenerate_flag = Some("both") THEN "generate_requirements"
    ELSE "save_to_db"

\* the edges with an edge from generate_keywords to generate_requirements in
\* the place of the edge to END
NextNodeChained(node, state) ==
    IF node = "generate_keywords" THEN "generate_requirements"
    ELSE IF node = "generate_requirements" THEN "generate_risks"
    ELSE IF node = "generate_risks" THEN should_regenerate(state)
    ELSE END

\* graph.py:42-57: the edges of the graph: the node that runs after node has
\* returned state
NextNode(node, state) ==
    IF node = "generate_keywords" THEN END
    ELSE IF node = "generate_requirements" THEN "generate_risks"
    ELSE IF node = "generate_risks" THEN should_regenerate(state)
    ELSE END

Nodes == {"generate_keywords", "generate_requirements", "generate_risks", "save_to_db"}

\* the node the run in progress executes next, and the node it was entered at
RunNext == last.detail

RunEntry == last.type

Running == RunNext \in Nodes

\* the record of a step of a run: a node that raises ends the run
WorkflowStep(node, t, raised, next, calls) ==
    [ Served(node, t, IF raised THEN 500 ELSE 200, IF raised THEN END ELSE next,
             <<>>, calls, <<>>) EXCEPT !.type = RunEntry ]

\* creation.py:20-35: the graph is streamed from its entry point on the initial
\* state of a new project
stream(t) ==
    /\ ~Running
    /\ workflow_states' = [workflow_states EXCEPT ![t] = Some(NewState(t, Description))]
    /\ last' = [ Served("stream", t, 200, EntryPoint, <<>>, <<>>, <<>>)
                   EXCEPT !.type = EntryPoint ]
    /\ UNCHANGED <<graph_db, clock>>

\* the messages one run of the regeneration loop appends at most: one of each
\* of its three nodes
RunMessages == 3

\* a run that is entered at a node of the regeneration loop on a state with a
\* selected keyword and a directive in regenerate_flag, as
\* tests/test_nodes.py:87-99 enters generate_requirements
resume(t, node, keyword, flag) ==
    /\ ~Running
    /\ HasSession(t)
    /\ ~IsNone(Session(t).keyword_output)
    /\ CanLog(t, RunMessages)
    /\ workflow_states' = [workflow_states EXCEPT ![t] =
           Some([Session(t) EXCEPT !.selected_keyword = keyword,
                                   !.regenerate_flag = flag])]
    /\ last' = [ Served("resume", t, 200, node, <<>>, <<>>, <<>>) EXCEPT !.type = node ]
    /\ UNCHANGED <<graph_db, clock>>

\* graph.py:37: the node generate_keywords
node_generate_keywords(t, reply) ==
    /\ RunNext = "generate_keywords" /\ last.thread = t
    /\ LET r == generate_keywords(Session(t), reply)
       IN  /\ workflow_states' = [workflow_states EXCEPT ![t] = Some(r.state)]
           /\ last' = WorkflowStep("generate_keywords", t, r.raised,
                                   NextNode("generate_keywords", r.state),
                                   <<Call("generate_keywords", reply, KeywordsDegraded(reply))>>)
    /\ UNCHANGED <<graph_db, clock>>

\* graph.py:38: the node generate_requirements
node_generate_requirements(t, reply) ==
    /\ RunNext = "generate_requirements" /\ last.thread = t
    /\ LET r == generate_requirements(Session(t), reply)
       IN  /\ workflow_states' = [workflow_states EXCEPT ![t] = Some(r.state)]
           /\ last' = WorkflowStep("generate_requirements", t, r.raised,
                                   NextNode("generate_requirements", r.state),
                                   <<Call("generate_requirements", reply, KeywordsDegraded(reply))>>)
    /\ UNCHANGED <<graph_db, clock>>

\* graph.py:39: the node generate_risks
node_generate_risks(t, reply) ==
    /\ RunNext = "generate_risks" /\ last.thread = t
    /\ LET r == generate_risks(Session(t), reply)
       IN  /\ workflow_states' = [workflow_states EXCEPT ![t] = Some(r.state)]
           /\ last' = WorkflowStep("generate_risks", t, r.raised,
                                   NextNode("generate_risks", r.state),
                                   <<Call("generate_risks", reply, RisksDegraded(reply))>>)
    /\ UNCHANGED <<graph_db, clock>>

\* graph.py:40: the node save_to_db
node_save_to_db(t, now, failAt) ==
    /\ RunNext = "save_to_db" /\ last.thread = t
    /\ LET r == call_save_tool(Session(t), graph_db, now, failAt)
       IN  /\ WithinBound(r.graph)
           /\ workflow_states' = [workflow_states EXCEPT ![t] = Some(r.state)]
           /\ graph_db' = r.graph
           /\ clock' = IF r.raised THEN clock ELSE now
           /\ last' = WorkflowStep("save_to_db", t, r.raised,
                                   NextNode("save_to_db", r.state), <<>>)

Directives == {None, Some("requirements"), Some("risks"), Some("both")}

Stream == stream("p1")

Resume ==
    \E node \in {"generate_requirements", "generate_risks"}, flag \in Directives :
        \E keyword \in {None, Some(GeneratedKeywords[1])} :
            resume("p1", node, keyword, flag)

NodeKeywords ==
    \E reply \in {ReplyArray(GeneratedKeywords), ReplyRaise, ReplyGarbage} :
        node_generate_keywords("p1", reply)

NodeRequirements ==
    \E reply \in {ReplyArray(GeneratedRequirements), ReplyRaise, ReplyGarbage} :
        node_generate_requirements("p1", reply)

NodeRisks ==
    \E reply \in {ReplyObject("Risks", GeneratedRisks), ReplyRaise, ReplyGarbage} :
        node_generate_risks("p1", reply)

NodeSave ==
    \E now \in Times : node_save_to_db("p1", now, NoFailure)

NextWorkflow ==
    \/ Stream
    \/ Resume
    \/ NodeKeywords
    \/ NodeRequirements
    \/ NodeRisks
    \/ NodeSave

SpecWorkflow == Init /\ [][NextWorkflow]_vars

\* a step of the run in progress: the generator node that is due runs
GraphStep == NodeKeywords \/ NodeRequirements \/ NodeRisks

\* the graph runs a generator node whenever one is due: a step of the run in
\* progress that stays possible is taken, whatever the llm answers
SpecWorkflowFair ==
    /\ Init /\ [][NextWorkflow]_vars
    /\ WF_vars(GraphStep)

-----------------------------------------------------------------------------
(* Every route that works on a session, called for a thread no project was   *)
(* created for, beside the requests that bring the session of a created      *)
(* project to requirements, test cases and a saved graph.                    *)

GeneratedTestCases ==
    [i \in 1..3 |-> TestCase("TC_REQ1_00" \o ToString(i),
                             "Generated test case " \o ToString(i), "Functional")]

TestCaseReplies ==
    { ReplyFencedArray(GeneratedTestCases), ReplyArrayOfObjects(GeneratedTestCases),
      ReplyFencedArray(SubSeq(GeneratedTestCases, 1, 1)), ReplyRaise }

\* TestCaseRequest.requirement_index: ge=0, lt=5 (models.py:95-98)
TestCaseIndexes == {0, StageSize - 1}

\* a thread no project is ever created for
Unknown == "p2"

SessionSelectKeyword ==
    \E t \in ThreadIds :
        select_keyword(t, 0, ReplyArray(GeneratedRequirements),
                       ReplyObject("Risks", GeneratedRisks))

SessionRegenerate ==
    \E ty \in {"requirements", "risks", "both"} :
        regenerate(Unknown, ty, ReplyArray(GeneratedRequirements),
                   ReplyObject("Risks", GeneratedRisks))

SessionFeedback ==
    \E ty \in {"requirement", "risks"}, ix \in FeedbackIndexes, q \in SingleReplies :
        regenerate_with_feedback(Unknown, ty, ix, [i \in 1..Len(ix) |-> q],
                                 [i \in 1..Len(ix) |-> q])

SessionRegenerateRequirements ==
    \E ix \in SelectiveIndexes, q \in RequirementRepliesFew :
        regenerate_requirements(Unknown, ix, q)

SessionRegenerateRisks ==
    \E ix \in SelectiveIndexes, r \in RiskRepliesFew :
        regenerate_risks(Unknown, ix, r)

SessionUpdateItem ==
    \E ty \in {"requirement", "risk"}, i \in EditIndexes, related \in BOOLEAN :
        update_item(Unknown, ty, i, EditedText, related, ReplyObject("Risks", GeneratedRisks))

SessionGenerateTestCases ==
    \E t \in ThreadIds, i \in TestCaseIndexes, reply \in TestCaseReplies :
        generate_test_cases_route(t, i, reply)

SessionSave ==
    \E t \in ThreadIds, now \in Times : save_project(t, now, NoFailure)

SessionSaveSelected ==
    \E now \in Times :
        save_selected_requirements(Unknown, SelectedRequirements, SelectedRisks,
                                   FallbackKeywords[1], now, NoFailure)

NextSessions ==
    \/ CreateFew
    \/ SessionSelectKeyword
    \/ SessionRegenerate
    \/ SessionFeedback
    \/ SessionRegenerateRequirements
    \/ SessionRegenerateRisks
    \/ SessionUpdateItem
    \/ SessionGenerateTestCases
    \/ SessionSave
    \/ SessionSaveSelected

SpecSessions == Init /\ [][NextSessions]_vars

-----------------------------------------------------------------------------
(* The handlers of the regeneration routes step by step: a handler is        *)
(* suspended while a call of the llm is in flight.  The routes are           *)
(* coroutines that call llm.invoke without awaiting, so no other handler     *)
(* runs before the suspended one has returned.                               *)

\* a call of the llm is in flight
Suspended == last.detail = "in_flight"

\* the position of a suspended handler: the generator that was called (fn) for
\* the item at index, the lists the session held when the handler was entered
\* (entry), and the local variables of the handler (frame)
InFlight(op, t, type, indexes, fn, index, entry, frame) ==
    [ op |-> op, thread |-> t, status |-> 0, detail |-> "in_flight", type |-> type,
      indexes |-> indexes, calls |-> <<>>, regens |-> <<>>, again |-> FALSE,
      fn |-> fn, index |-> index, entry |-> entry, frame |-> frame ]

\* the two lists of a state dictionary
Lists(state) ==
    [ requirements |-> state.requirements_output, risks |-> state.risks_output ]

\* the state dictionary after an item was assigned to the list the loop works
\* on, were that list the one the session holds and not a copy of it
AfterItemInPlace(state, phase, frame) ==
    IF phase = "requirement"
    THEN [state EXCEPT !.requirements_output = Some(frame.requirements)]
    ELSE [state EXCEPT !.risks_output = Some(frame.risks)]

\* regeneration.py:95-96 and 155: current_requirements and current_risks are
\* copies, an assignment to one of their items leaves the state dictionary as
\* it was
AfterItem(state, phase, frame) == state

\* regeneration.py:99-147 and 160-180: the handler runs from the position of
\* frame to its next call of the llm or to its end.  phase is "requirement"
\* (the loop at 100), "cascade" (the loop at 127) or "risks" (the loop at 161)
RECURSIVE FeedbackRun(_, _)
FeedbackRun(state, frame) ==
    LET idx == frame.todo[frame.k]
        skip == [frame EXCEPT !.k = frame.k + 1]
    IN  IF frame.phase = "requirement"
        THEN IF frame.k <= Len(frame.todo)
             THEN IF idx < Len(frame.requirements)
                  THEN [suspended |-> TRUE, state |-> state, frame |-> frame]
                  ELSE FeedbackRun(state, skip)
             ELSE LET s1 == [state EXCEPT !.requirements_output = Some(frame.requirements)]
                  IN  IF frame.updated # <<>>
                      THEN FeedbackRun(s1, [frame EXCEPT !.phase = "cascade",
                                                         !.todo = frame.updated, !.k = 1])
                      ELSE [suspended |-> FALSE, state |-> s1, frame |-> frame]
        ELSE IF frame.k <= Len(frame.todo)
             THEN IF idx < Len(frame.risks)
                  THEN [suspended |-> TRUE, state |-> state, frame |-> frame]
                  ELSE FeedbackRun(state, skip)
             ELSE [suspended |-> FALSE,
                   state |-> IF IsNone(state.risks_output) THEN state
                             ELSE [state EXCEPT !.risks_output = Some(frame.risks)],
                   frame |-> frame]

\* what FeedbackRun has reached, as the step of the handler of thread t
FeedbackStep(t, type, indexes, entry, run) ==
    /\ workflow_states' = [workflow_states EXCEPT ![t] = Some(run.state)]
    /\ last' = IF run.suspended
               THEN InFlight("regenerate_with_feedback", t, type, indexes,
                             IF run.frame.phase = "requirement" THEN "requirement" ELSE "risk",
                             run.frame.todo[run.frame.k], entry, run.frame)
               ELSE IF IsNone(run.state.requirements_output) \/ IsNone(run.state.risks_output)
               THEN ServedAs(type, Served("regenerate_with_feedback", t, 500, "exception",
                                          indexes, <<>>, run.frame.regens))
               ELSE ServedAs(type, Served("regenerate_with_feedback", t, 200, "regenerated",
                                          indexes, <<>>, run.frame.regens))
    /\ UNCHANGED <<graph_db, clock>>

\* regeneration.py:57-99 and 150-158: POST /regenerate-with-feedback is entered
\* and runs to its first call of the llm
regenerate_with_feedback_call(t, regenerate_type, indexes) ==
    /\ ~Suspended
    /\ IF ~HasSession(t)
       THEN /\ last' = ServedAs(regenerate_type,
                        Served("regenerate_with_feedback", t, 404, "Thread not found",
                               indexes, <<>>, <<>>))
            /\ UNCHANGED <<workflow_states, graph_db, clock>>
       ELSE LET s0 == IF IsNone(Session(t).selected_keyword)
                      THEN [Session(t) EXCEPT !.selected_keyword = Some(t)] ELSE Session(t)
                missing == IF regenerate_type = "requirement"
                           THEN IsNone(s0.requirements_output) ELSE IsNone(s0.risks_output)
                frame == [ phase |-> regenerate_type, todo |-> indexes, k |-> 1,
                           requirements |-> IF IsNone(s0.requirements_output) THEN <<>>
                                            ELSE s0.requirements_output[1],
                           risks |-> IF IsNone(s0.risks_output) THEN <<>>
                                     ELSE s0.risks_output[1],
                           updated |-> <<>>, regens |-> <<>> ]
            IN  IF missing
                THEN /\ workflow_states' = [workflow_states EXCEPT ![t] = Some(s0)]
                     /\ last' = ServedAs(regenerate_type,
                                 Served("regenerate_with_feedback", t, 400,
                                        IF regenerate_type = "requirement"
                                        THEN "No requirements available"
                                        ELSE "No risks available", indexes, <<>>, <<>>))
                     /\ UNCHANGED <<graph_db, clock>>
                ELSE FeedbackStep(t, regenerate_type, indexes, Lists(s0),
                                  FeedbackRun(s0, frame))

\* regeneration.py:104-114, 133-141 and 165-175: the call in flight returns,
\* the handler assigns the item to its copy and runs on
regenerate_with_feedback_return(reply) ==
    /\ Suspended
    /\ last.op = "regenerate_with_feedback"
    /\ LET t == last.thread
           f == last.frame
           idx == last.index
           items == IF f.phase = "requirement" THEN f.requirements ELSE f.risks
           r == IF f.phase = "requirement"
                THEN generate_single_requirement_with_feedback(Session(t), idx, reply)
                ELSE generate_single_risk_with_feedback(Session(t), idx, reply)
           changed == ~r.raised /\ r.value # "" /\ r.value # items[PyPos(items, idx)]
           regen == Regen(last.fn, idx, changed, PromptRequirement(Session(t), idx))
           f1 == [f EXCEPT !.requirements = IF changed /\ f.phase = "requirement"
                                            THEN ListSet(items, idx, r.value) ELSE @,
                           !.risks = IF changed /\ f.phase # "requirement"
                                     THEN ListSet(items, idx, r.value) ELSE @,
                           !.updated = IF changed /\ f.phase = "requirement"
                                       THEN Append(@, idx) ELSE @,
                           !.regens = Append(@, regen),
                           !.k = f.k + 1]
       IN  FeedbackStep(t, last.type, last.indexes, last.entry,
                        FeedbackRun(AfterItem(Session(t), f.phase, f1), f1))

\* regeneration.py:205-227: POST /regenerate-requirements is entered, copies
\* the requirements and calls generate_requirements
regenerate_requirements_call(t, requirement_indexes) ==
    /\ ~Suspended
    /\ HasSession(t)
    /\ ~IsNone(Session(t).selected_keyword)
    /\ ~IsNone(Session(t).requirements_output)
    /\ CanLog(t, 1)
    /\ last' = InFlight("regenerate_requirements", t, "", Requested(requirement_indexes),
                        "generate_requirements", 0, Lists(Session(t)),
                        [ current_requirements |-> Session(t).requirements_output[1],
                          requirement_indexes |-> requirement_indexes ])
    /\ UNCHANGED <<workflow_states, graph_db, clock>>

\* nodes.py:160-187 and regeneration.py:227-242: the call returns,
\* generate_requirements stores its list, and the handler stores the copy with
\* the requested items replaced
regenerate_requirements_return(reply) ==
    /\ Suspended
    /\ last.op = "regenerate_requirements"
    /\ LET t == last.thread
           f == last.frame
           g == generate_requirements(Session(t), reply)
           m == IF IsNone(f.requirement_indexes)
                THEN [raised |-> TRUE, items |-> f.current_requirements]
                ELSE ReplaceSelected(f.current_requirements, g.state.requirements_output[1],
                                     f.requirement_indexes[1], 1)
           calls == <<Call("generate_requirements", reply, KeywordsDegraded(reply))>>
       IN  IF m.raised
           THEN /\ workflow_states' = [workflow_states EXCEPT ![t] = Some(g.state)]
                /\ last' = Served("regenerate_requirements", t, 500, "exception",
                                  last.indexes, calls, <<>>)
           ELSE /\ workflow_states' = [workflow_states EXCEPT ![t] =
                       Some([g.state EXCEPT !.requirements_output = Some(m.items)])]
                /\ last' = Served("regenerate_requirements", t, 200, "regenerated",
                                  last.indexes, calls, <<>>)
    /\ UNCHANGED <<graph_db, clock>>

CallIndexes == {<<1>>, <<1, 2>>, <<4, -1>>, <<7, 0>>}

CallsCreate == ~Suspended /\ CreateFew

CallsSelectKeyword == ~Suspended /\ SelectKeywordValid

FeedbackCall ==
    \E ty \in {"requirement", "risks"}, ix \in CallIndexes :
        regenerate_with_feedback_call("p1", ty, ix)

FeedbackReturn ==
    \E reply \in SingleReplies : regenerate_with_feedback_return(reply)

RegenerateRequirementsCall ==
    \E ix \in SelectiveIndexes : regenerate_requirements_call("p1", ix)

RegenerateRequirementsReturn ==
    \E reply \in RequirementRepliesFew : regenerate_requirements_return(reply)

NextCalls ==
    \/ CallsCreate
    \/ CallsSelectKeyword
    \/ FeedbackCall
    \/ FeedbackReturn
    \/ RegenerateRequirementsCall
    \/ RegenerateRequirementsReturn

SpecCalls == Init /\ [][NextCalls]_vars

-----------------------------------------------------------------------------
(* Two sessions whose requests interleave, and the nodes each has saved.     *)

PairCreate ==
    \E t \in ThreadIds : create_project(t, ReplyArray(GeneratedKeywords))

PairSelectKeyword ==
    \E t \in ThreadIds :
        select_keyword(t, 0, ReplyArray(GeneratedRequirements),
                       ReplyObject("Risks", GeneratedRisks))

PairEdit ==
    update_item("p1", "requirement", 1, EditedText, FALSE,
                ReplyObject("Risks", GeneratedRisks))

PairSave ==
    \E now \in Times : save_project("p1", now, NoFailure)

PairSaveSelected ==
    \E t \in ThreadIds, now \in Times :
        save_selected_requirements(t, SelectedRequirements, SelectedRisks,
                                   FallbackKeywords[1], now, NoFailure)

PairLoad ==
    \E result \in RowOrders(LoadRows(graph_db, "p2")) :
        load_project_from_neo4j("p2", result)

NextPair ==
    \/ PairCreate
    \/ PairSelectKeyword
    \/ PairEdit
    \/ PairSave
    \/ PairSaveSelected
    \/ PairLoad

SpecPair == Init /\ [][NextPair]_vars

-----------------------------------------------------------------------------
(* Saves in which a query of the database may raise, the load of what they   *)
(* left, and the test cases of a session.                                    *)

\* the number of queries that run before one raises, or none raises: the
\* first, one of a requirement, one of a risk
Failures == {NoFailure, Some(0), Some(3), Some(StageSize + 3)}

SaveMayFail ==
    \E now \in Times, failAt \in Failures : save_project("p1", now, failAt)

TestCasesOfFirst ==
    generate_test_cases_route("p1", 0, ReplyFencedArray(GeneratedTestCases))

\* the second risk is edited to the empty text
ClearRisk ==
    update_item("p1", "risk", 1, "", FALSE, ReplyObject("Risks", GeneratedRisks))

NextSave ==
    \/ CreateFew
    \/ SelectKeywordValid
    \/ SaveMayFail
    \/ Load
    \/ TestCasesOfFirst

SpecSave == Init /\ [][NextSave]_vars

\* a project with an emptied risk is saved and loaded
NextLoad ==
    \/ CreateFew
    \/ SelectKeywordValid
    \/ ClearRisk
    \/ Save
    \/ Load

SpecLoad == Init /\ [][NextLoad]_vars

-----------------------------------------------------------------------------
(* The test cases of a session that holds the five requirements of the       *)
(* stage or the three of a project saved in part and loaded.                 *)

\* a reply of four test cases
FourTestCases ==
    GeneratedTestCases \o <<TestCase("TC_REQ1_004", "Generated test case 4", "Boundary")>>

GenerateTestCases ==
    \E i \in TestCaseIndexes :
        \E reply \in {ReplyFencedArray(GeneratedTestCases), ReplyFencedArray(FourTestCases),
                      ReplyFencedArray(SubSeq(GeneratedTestCases, 1, 1)), ReplyRaise} :
            generate_test_cases_route("p1", i, reply)

NextTestCases ==
    \/ CreateFew
    \/ SelectKeywordValid
    \/ SaveSelected
    \/ Load
    \/ GenerateTestCases

SpecTestCases == Init /\ [][NextTestCases]_vars

-----------------------------------------------------------------------------
(* nodes.py:26-62: the text of a reply as the sequence of its tokens: the    *)
(* brackets, braces, commas and colons, a string literal "s", a number "n", a *)
(* word of prose "x", and the marks that open and close a code fence.         *)

FenceOpen == "fence_json"

FenceClose == "fence"

\* str.find and str.rfind of a token: 0 when the text does not hold it
Find(text, token) ==
    IF \E i \in 1..Len(text) : text[i] = token
    THEN CHOOSE i \in 1..Len(text) : text[i] = token /\ \A j \in 1..(i - 1) : text[j] # token
    ELSE 0

RFind(text, token) ==
    IF \E i \in 1..Len(text) : text[i] = token
    THEN CHOOSE i \in 1..Len(text) :
             text[i] = token /\ \A j \in (i + 1)..Len(text) : text[j] # token
    ELSE 0

\* the first position after from that holds the token, 0 when none does
FindAfter(text, token, from) ==
    IF \E i \in (from + 1)..Len(text) : text[i] = token
    THEN CHOOSE i \in (from + 1)..Len(text) :
             text[i] = token /\ \A j \in (from + 1)..(i - 1) : text[j] # token
    ELSE 0

\* json.loads: the position after the json value that starts at position i of
\* the tokens, 0 when no value starts there
RECURSIVE ValueEnd(_, _), ItemsEnd(_, _), MembersEnd(_, _)
ValueEnd(tokens, i) ==
    IF i > Len(tokens) THEN 0
    ELSE IF tokens[i] \in {"s", "n"} THEN i + 1
    ELSE IF tokens[i] = "["
    THEN IF i + 1 <= Len(tokens) /\ tokens[i + 1] = "]" THEN i + 2
         ELSE ItemsEnd(tokens, i + 1)
    ELSE IF tokens[i] = "{"
    THEN IF i + 1 <= Len(tokens) /\ tokens[i + 1] = "}" THEN i + 2
         ELSE MembersEnd(tokens, i + 1)
    ELSE 0

\* the items of an array from position i to its closing bracket
ItemsEnd(tokens, i) ==
    LET e == ValueEnd(tokens, i)
    IN  IF e = 0 \/ e > Len(tokens) THEN 0
        ELSE IF tokens[e] = "]" THEN e + 1
        ELSE IF tokens[e] = "," THEN ItemsEnd(tokens, e + 1)
        ELSE 0

\* the members of an object from position i to its closing brace
MembersEnd(tokens, i) ==
    IF i + 1 > Len(tokens) \/ tokens[i] # "s" \/ tokens[i + 1] # ":" THEN 0
    ELSE LET e == ValueEnd(tokens, i + 2)
         IN  IF e = 0 \/ e > Len(tokens) THEN 0
             ELSE IF tokens[e] = "}" THEN e + 1
             ELSE IF tokens[e] = "," THEN MembersEnd(tokens, e + 1)
             ELSE 0

\* json.loads accepts the tokens: they are one json value and nothing more
IsJson(tokens) == tokens # <<>> /\ ValueEnd(tokens, 1) = Len(tokens) + 1

\* nodes.py:34-35: re.sub(r',\s*}', '}', ...) and re.sub(r',\s*]', ']', ...):
\* one pass that drops each comma that stands before the closing token
RECURSIVE DropCommaBefore(_, _)
DropCommaBefore(tokens, closing) ==
    IF tokens = <<>> THEN <<>>
    ELSE IF Len(tokens) >= 2 /\ tokens[1] = "," /\ tokens[2] = closing
    THEN <<closing>> \o DropCommaBefore(SubSeq(tokens, 3, Len(tokens)), closing)
    ELSE <<tokens[1]>> \o DropCommaBefore(Tail(tokens), closing)

\* nodes.py:33-35
Repair(json_str) == DropCommaBefore(DropCommaBefore(json_str, "}"), "]")

\* nodes.py:26-38: the value json.loads returns is held as the tokens it was
\* read from; None is the default returned when both attempts fail
safe_json_parse(json_str) ==
    IF IsJson(json_str) THEN Some(json_str)
    ELSE IF IsJson(Repair(json_str)) THEN Some(Repair(json_str))
    ELSE None

\* nodes.py:40-62
extract_json_from_text(text) ==
    LET open == Find(text, FenceOpen)
        close == FindAfter(text, FenceClose, open)
        brace == Find(text, "{")
        rbrace == RFind(text, "}")
        bracket == Find(text, "[")
        rbracket == RFind(text, "]")
    IN  IF open > 0 /\ close > 0
        THEN Some(SubSeq(text, open + 1, close - 1))
        ELSE IF brace > 0 /\ rbrace > 0 /\ rbrace >= brace
        THEN Some(SubSeq(text, brace, rbrace))
        ELSE IF bracket > 0 /\ rbracket > 0 /\ rbracket >= bracket
        THEN Some(SubSeq(text, bracket, rbracket))
        ELSE None

\* prose before and after the json of a reply: none, words, a bracketed
\* reference, a remark in braces, a lone bracket
Commentary ==
    { <<>>, <<"x">>, <<"x", "x", "x">>, <<"x", "[", "n", "]", "x">>,
      <<"x", "{", "x", "}">>, <<"x", "]">>, <<"[", "x">>, <<"x", ",", "x">> }

\* json arrays: of strings, empty, of numbers, with a comma before the closing
\* bracket, of arrays, of objects
Arrays ==
    { <<"[", "s", ",", "s", ",", "s", ",", "s", ",", "s", "]">>,
      <<"[", "s", "]">>,
      <<"[", "]">>,
      <<"[", "n", ",", "n", "]">>,
      <<"[", "s", ",", "s", ",", "]">>,
      <<"[", "[", "s", "]", ",", "[", "s", "]", "]">>,
      <<"[", "{", "s", ":", "s", "}", "]">>,
      <<"[", "{", "s", ":", "s", "}", ",", "{", "s", ":", "s", "}", "]">> }

\* a reply of the llm: prose, one json array, prose
InitTexts ==
    /\ workflow_states = [t \in ThreadIds |-> None]
    /\ graph_db = EmptyGraph
    /\ clock = 0
    /\ \E before \in Commentary, array \in Arrays, after \in Commentary :
           last = [ op |-> "reply", thread |-> "p1", status |-> 0, detail |-> "", type |-> "",
                    indexes |-> <<>>, calls |-> <<>>, regens |-> <<>>, again |-> FALSE,
                    before |-> before, array |-> array, after |-> after,
                    content |-> before \o array \o after,
                    json_str |-> None, parsed |-> None ]

\* nodes.py:90: json_str = extract_json_from_text(content)
ExtractJson ==
    /\ last.op = "reply"
    /\ last' = [last EXCEPT !.op = "extracted",
                            !.json_str = extract_json_from_text(last.content)]
    /\ UNCHANGED <<workflow_states, graph_db, clock>>

\* nodes.py:91-98: if json_str: keywords = safe_json_parse(json_str); without
\* json_str the text holds no bracket and ValueError is raised
ParseJson ==
    /\ last.op = "extracted"
    /\ last' = [last EXCEPT !.op = "parsed",
                            !.parsed = IF IsNone(last.json_str) THEN None
                                       ELSE safe_json_parse(last.json_str[1])]
    /\ UNCHANGED <<workflow_states, graph_db, clock>>

NextTexts ==
    \/ ExtractJson
    \/ ParseJson

SpecTexts == InitTexts /\ [][NextTexts]_vars

-----------------------------------------------------------------------------
(* tools/tools.py:71-115, api/routes/test_case_routes.py:48-89 and          *)
(* traceability/traceability_service.py: the test cases of a requirement in *)
(* the graph database, and the graph that is read back for a project.       *)

\* the properties a TestCase node is merged on
TestCaseKey(test_id, project, requirement_index) ==
    [test_id |-> test_id, project |-> project, requirement_index |-> requirement_index]

TestCaseNode(test_case, project, requirement_index) ==
    [test_id |-> test_case.test_id, project |-> project,
     requirement_index |-> requirement_index,
     description |-> test_case.description, test_type |-> test_case.test_type]

\* tools.py:84-100: MATCH the project and every Requirement of that project and
\* index, MERGE the TestCase node on its key, SET its other properties, MERGE
\* VERIFIED_BY from each matched Requirement
MergeTestCase(g, name, req_index, test_case) ==
    LET matched == {r \in g.requirements : r.project = name /\ r.index = req_index}
        key == TestCaseKey(test_case.test_id, name, req_index)
    IN  IF ~ProjectExists(g, name) \/ matched = {} THEN g
        ELSE [g EXCEPT !.test_cases =
                           {tc \in @ : TestCaseKey(tc.test_id, tc.project, tc.requirement_index) # key}
                              \cup {TestCaseNode(test_case, name, req_index)},
                       !.verified_by = @ \cup {<<r, key>> : r \in matched}]

RECURSIVE MergeTestCases(_, _, _, _, _)
MergeTestCases(g, name, req_index, test_cases, n) ==
    IF n = 0 THEN g
    ELSE MergeTestCase(MergeTestCases(g, name, req_index, test_cases, n - 1),
                       name, req_index, test_cases[n])

\* tools.py:71-115: the requirement is looked up under requirement_index + 1;
\* failAt holds the number of queries that run before one raises
save_test_cases_to_neo4j(g, test_cases, project_name, requirement_index, failAt) ==
    IF IsNone(failAt) \/ failAt[1] >= Len(test_cases)
    THEN [graph |-> MergeTestCases(g, project_name, requirement_index + 1, test_cases,
                                   Len(test_cases)),
          result |-> "Successfully saved " \o ToString(Len(test_cases)) \o " test cases to Neo4j"]
    ELSE [graph |-> MergeTestCases(g, project_name, requirement_index + 1, test_cases,
                                   failAt[1]),
          result |-> "Error saving test cases"]

\* POST /save-test-cases (test_case_routes.py:48-89)
save_test_cases(t, requirement_index, test_cases, failAt) ==
    /\ IF ~HasSession(t)
       THEN /\ last' = Served("save_test_cases", t, 404, "Thread not found",
                              <<requirement_index>>, <<>>, <<>>)
            /\ UNCHANGED <<workflow_states, graph_db>>
       ELSE IF IsNone(Session(t).requirements_output)
                 \/ requirement_index >= Len(Session(t).requirements_output[1])
       THEN /\ last' = Served("save_test_cases", t, 400, "Invalid requirement index",
                              <<requirement_index>>, <<>>, <<>>)
            /\ UNCHANGED <<workflow_states, graph_db>>
       ELSE IF IndexError(Session(t).requirements_output[1], requirement_index)
       THEN /\ last' = Served("save_test_cases", t, 500, "exception",
                              <<requirement_index>>, <<>>, <<>>)
            /\ UNCHANGED <<workflow_states, graph_db>>
       ELSE LET s == save_test_cases_to_neo4j(graph_db, test_cases, t, requirement_index, failAt)
                state == Session(t)
                held == ~IsNone(state.test_cases_output)
                           /\ state.test_cases_output[1] # <<>>
                           /\ requirement_index \in DOMAIN state.test_cases_output[1]
            IN  /\ graph_db' = s.graph
                /\ workflow_states' =
                      [workflow_states EXCEPT ![t] =
                          Some(IF held THEN StoreTestCases(state, requirement_index, test_cases)
                               ELSE state)]
                /\ last' = Served("save_test_cases", t, 200, "saved", <<requirement_index>>,
                                  <<[fn |-> "save_test_cases_to_neo4j", llm |-> "none",
                                     result |-> s.result]>>, <<>>)
    /\ UNCHANGED clock

\* traceability_service.py:33-51: the map a node is returned as
TraceNode(id, type, label, properties) ==
    [id |-> id, type |-> type, label |-> label, properties |-> properties]

\* traceability_service.py:26-57: the Project nodes of the name, the
\* Requirements they have and the Risks those have, each map once
TraceNodes(g, project_name) ==
    LET ps == {p \in g.projects : p.name = project_name}
        rs == {r \in g.requirements : \E p \in ps : <<p.name, r>> \in g.has_requirement}
        rks == {rk \in g.risks : \E r \in rs : <<r, rk>> \in g.has_risk}
    IN  {TraceNode(p.name, "Project", p.name, p) : p \in ps}
          \cup {TraceNode("REQ_" \o ToString(r.index), "Requirement", r.description, r) : r \in rs}
          \cup {TraceNode("RISK_" \o ToString(rk.index), "Risk", rk.description, rk) : rk \in rks}

TraceLink(source, target, type) == [source |-> source, target |-> target, type |-> type]

\* traceability_service.py:75-94: one map for every Risk of every Requirement
\* the project has, as the bag of the maps
get_relationships(g, project_name) ==
    LET ps == {p \in g.projects : p.name = project_name}
        paths == {e \in g.has_risk : \E p \in ps : <<p.name, e[1]>> \in g.has_requirement}
        link(e) == TraceLink("REQ_" \o ToString(e[1].index),
                             "RISK_" \o ToString(e[2].index), "HAS_RISK")
    IN  [l \in {link(e) : e \in paths} |-> Cardinality({e \in paths : link(e) = l})]

\* traceability_service.py:24-73
get_project_traceability(g, project_name) ==
    [nodes |-> TraceNodes(g, project_name), links |-> get_relationships(g, project_name)]

\* GET /traceability-graph without a requirement id
get_traceability_graph(project_name) ==
    /\ last' = [ op |-> "traceability", thread |-> project_name, status |-> 200,
                 detail |-> "", type |-> "", indexes |-> <<>>, calls |-> <<>>,
                 regens |-> <<>>, again |-> FALSE,
                 graph |-> get_project_traceability(graph_db, project_name) ]
    /\ UNCHANGED <<workflow_states, graph_db, clock>>

\* the test cases of a request: three, the first of them alone, or the first
\* under another description
SavedTestCases ==
    { GeneratedTestCases, SubSeq(GeneratedTestCases, 1, 1),
      <<TestCase("TC_REQ1_001", "Edited test case", "Functional")>> }

SaveTestCases ==
    \E i \in {0, 1, StageSize}, test_cases \in SavedTestCases, failAt \in {NoFailure, Some(1)} :
        save_test_cases("p1", i, test_cases, failAt)

Trace ==
    \E name \in ThreadIds : get_traceability_graph(name)

NextTrace ==
    \/ CreateFew
    \/ SelectKeywordValid
    \/ Save
    \/ SaveTestCases
    \/ Trace

SpecTrace == Init /\ [][NextTrace]_vars

-----------------------------------------------------------------------------
(* models.py:67-72: the regeneration types the request model of             *)
(* POST /regenerate-with-feedback documents.                                 *)

DocumentedTypes == {"requirements", "risks"}

\* regeneration.py:87 and 150: the types the handler compares with
HandledTypes == {"requirement", "risks"}

FeedbackDocumented ==
    \E type \in DocumentedTypes \cup HandledTypes, ix \in FeedbackIndexes :
        \E rs \in [1..Len(ix) -> SingleReplies] :
            regenerate_with_feedback("p1", type, ix, rs, rs)

NextTypes ==
    \/ CreateFew
    \/ SelectKeywordValid
    \/ FeedbackDocumented

SpecTypes == Init /\ [][NextTypes]_vars

-----------------------------------------------------------------------------
(* models.py:32-36 and regeneration.py:205-300: the regeneration by indexes  *)
(* with the index lists a request may hold: no list, the empty list, two     *)
(* indexes, an index from the end of the list, an index before its start.    *)

IndexLists == {<<>>, <<0, 2>>, <<-1>>, <<-(StageSize + 2)>>}

BatchIndexes == {None} \cup {Some(ix) : ix \in IndexLists}

BatchRequirements ==
    \E ix \in BatchIndexes, q \in RequirementRepliesFew :
        regenerate_requirements("p1", ix, q)

BatchRisks ==
    \E ix \in BatchIndexes, r \in RiskRepliesFew :
        regenerate_risks("p1", ix, r)

NextBatch ==
    \/ CreateFew
    \/ SelectKeywordValid
    \/ BatchRequirements
    \/ BatchRisks

SpecBatch == Init /\ [][NextBatch]_vars

-----------------------------------------------------------------------------
(* Properties of the stages                                                  *)

\* the calls of stage function fn the last request made
CallsOf(fn) == { k \in 1..Len(last.calls) : last.calls[k].fn = fn }

\* the stage's list is stored and has StageSize items
FullList(output) == ~IsNone(output) /\ Len(output[1]) = StageSize

\* C2: whenever a stage function returns, the list it leaves in the state
\* (keyword_output, requirements_output, risks_output) has exactly StageSize
\* items, whatever the llm replied: this holds of the session a whole-stage
\* request has just written, and of every stage function applied to a reachable
\* session under every reply
C2_StageListsHaveFiveItems ==
    \A t \in ThreadIds :
        HasSession(t) =>
            /\ \A reply \in KeywordReplies :
                   LET r == generate_keywords(Session(t), reply)
                   IN  ~r.raised => FullList(r.state.keyword_output)
            /\ \A reply \in RequirementReplies :
                   LET r == generate_requirements(Session(t), reply)
                   IN  ~r.raised => FullList(r.state.requirements_output)
            /\ \A reply \in RiskReplies :
                   LET r == generate_risks(Session(t), reply)
                   IN  ~r.raised => FullList(r.state.risks_output)
            /\ (last.thread = t /\ last.status = 200) =>
                   /\ CallsOf("generate_keywords") # {} => FullList(Session(t).keyword_output)
                   /\ CallsOf("generate_requirements") # {} => FullList(Session(t).requirements_output)
                   /\ CallsOf("generate_risks") # {} => FullList(Session(t).risks_output)

\* a regeneration of both stages has returned after the llm gave a reply that
\* is no list of five items to the requirements stage and raised in the risks
\* stage: the session holds the fallback lists
C2_Witness ==
    /\ last.op = "regenerate" /\ last.status = 200 /\ HasSession("p1")
    /\ \E k \in CallsOf("generate_requirements") : last.calls[k].llm = "invalid"
    /\ \E k \in CallsOf("generate_risks") : last.calls[k].llm = "error"
    /\ Session("p1").requirements_output = Some(FallbackRequirements(KeywordText(Session("p1"))))
    /\ Session("p1").risks_output =
           Some(generate_fallback_risks(Session("p1").requirements_output[1]))

\* C10: when the llm raises in a whole-stage generation the request fails, and
\* no fallback list is stored in place of the stage's output
C10_GeneratorExceptionPropagates ==
    (\E k \in 1..Len(last.calls) : last.calls[k].llm = "error") => last.status # 200

-----------------------------------------------------------------------------
(* Properties of the graph                                                   *)

\* the requirements and the risks of the session of t before and after the step
RequirementsBefore(t) == workflow_states[t][1].requirements_output[1]

RequirementsAfter(t) == workflow_states'[t][1].requirements_output[1]

RisksBefore(t) == workflow_states[t][1].risks_output[1]

RisksAfter(t) == workflow_states'[t][1].risks_output[1]

\* C3: after a request that ran the whole risks stage and succeeded, the
\* session has as many risks as requirements, also when its lists were loaded
\* from a graph that holds fewer than StageSize requirements
C3_RisksAlignedAfterStage ==
    \A t \in ThreadIds :
        (HasSession(t) /\ last.thread = t /\ last.status = 200
            /\ CallsOf("generate_risks") # {}) =>
            Len(Session(t).risks_output[1]) = Len(Session(t).requirements_output[1])

\* the graph without the time of the last update of its Project nodes
Structure(g) ==
    [ projects |-> {[name |-> p.name, keyword |-> p.keyword] : p \in g.projects},
      project_count |-> Cardinality(g.projects),
      requirements |-> g.requirements, risks |-> g.risks,
      has_requirement |-> g.has_requirement, has_risk |-> g.has_risk ]

\* the step is a save of the session that the save before it has saved
SavedAgain == last'.op = "save" /\ last'.again

\* C6, as the spec states it: the second of two saves in a row of an unchanged
\* session leaves the graph as it was, the properties of its nodes included
C6_SecondSaveChangesNothing ==
    [][SavedAgain => graph_db' = graph_db]_vars

\* C6: the second of two saves in a row of an unchanged session leaves the
\* nodes, their properties and the relationships as they were, except for the
\* updated_at of the Project node, which the save sets again
C6_SecondSaveKeepsStructure ==
    [][SavedAgain => Structure(graph_db') = Structure(graph_db)]_vars

\* a session of StageSize requirements has been saved twice in a row, and the
\* clock has advanced since the graph was empty
C6_Witness ==
    /\ last.op = "save" /\ last.again /\ clock > 0
    /\ \E p \in graph_db.projects : p.name = last.thread /\ p.updated_at = clock
    /\ Cardinality(graph_db.requirements) >= StageSize

\* C7: the graph holds at most one Requirement and at most one Risk per
\* project and index, and every Risk has exactly one Requirement with a
\* HAS_RISK relationship to it
C7_OneNodePerIndex ==
    /\ \A a, b \in graph_db.requirements :
           (a.project = b.project /\ a.index = b.index) => a = b
    /\ \A a, b \in graph_db.risks :
           (a.project = b.project /\ a.index = b.index) => a = b
    /\ \A rk \in graph_db.risks :
           Cardinality({e \in graph_db.has_risk : e[2] = rk}) = 1

\* C8: a load that follows a save of a session with as many risks as
\* requirements gives the session the requirements and the risks that were
\* saved, whatever was saved to the graph before
C8_LoadReturnsWhatWasSaved ==
    [][(/\ last.op = "save" /\ last.status = 200
        /\ Len(RisksBefore(last.thread)) = Len(RequirementsBefore(last.thread))
        /\ last'.op = "load" /\ last'.status = 200) =>
           /\ workflow_states'[last.thread][1].requirements_output = Session(last.thread).requirements_output
           /\ workflow_states'[last.thread][1].risks_output = Session(last.thread).risks_output]_vars

-----------------------------------------------------------------------------
(* Properties of the regeneration and the editing of single items            *)

\* the positions of the list that the indexes of the request do not name
Unnamed(list, indexes) == {p \in 1..Len(list) : (p - 1) \notin Range(indexes)}

\* C1: a successful index-scoped regeneration of requirements (of risks) leaves
\* every requirement (risk) at a position outside the requested indexes as it
\* was, keeps the length of the list, and leaves the other list untouched
C1_IndexScopedFrame ==
    [][/\ (last'.op = "regenerate_requirements" /\ last'.status = 200) =>
            /\ Len(RequirementsAfter(last'.thread)) = Len(RequirementsBefore(last'.thread))
            /\ \A p \in Unnamed(RequirementsBefore(last'.thread), last'.indexes) :
                   RequirementsAfter(last'.thread)[p] = RequirementsBefore(last'.thread)[p]
            /\ workflow_states'[last'.thread][1].risks_output
                   = workflow_states[last'.thread][1].risks_output
       /\ (last'.op = "regenerate_risks" /\ last'.status = 200) =>
            /\ Len(RisksAfter(last'.thread)) = Len(RisksBefore(last'.thread))
            /\ \A p \in Unnamed(RisksBefore(last'.thread), last'.indexes) :
                   RisksAfter(last'.thread)[p] = RisksBefore(last'.thread)[p]
            /\ workflow_states'[last'.thread][1].requirements_output
                   = workflow_states[last'.thread][1].requirements_output]_vars

\* the calls of the single-item function fn for index i in the step's request
RegensOf(fn, i) ==
    {k \in 1..Len(last'.regens) : last'.regens[k].fn = fn /\ last'.regens[k].index = i}

\* the step served a feedback regeneration of requirements of a session that
\* holds both lists
FeedbackOnRequirements ==
    /\ last'.op = "regenerate_with_feedback" /\ last'.type = "requirement"
    /\ last'.status = 200

\* C4: in a feedback regeneration of requirements, a requested index whose
\* regeneration returned the text the requirement already had keeps its risk
\* byte for byte, and no risk regeneration is attempted for it
C4_NoCascadeWhenUnchanged ==
    [][FeedbackOnRequirements =>
          \A i \in Range(last'.indexes) :
              (/\ 0 <= i /\ i < Len(RequirementsBefore(last'.thread))
               /\ i < Len(RisksBefore(last'.thread))
               /\ \A k \in RegensOf("requirement", i) : ~last'.regens[k].changed) =>
                  /\ RisksAfter(last'.thread)[i + 1] = RisksBefore(last'.thread)[i + 1]
                  /\ RegensOf("risk", i) = {}]_vars

\* C5: in a feedback regeneration of requirements, exactly one risk
\* regeneration is attempted for each requested index whose requirement text
\* changed, and none for any other index, also when the request names an index
\* more than once
C5_OneRiskAttemptPerChangedIndex ==
    [][FeedbackOnRequirements =>
          \A i \in Range(last'.indexes) :
              Cardinality(RegensOf("risk", i)) =
                  IF \E k \in RegensOf("requirement", i) : last'.regens[k].changed
                  THEN 1 ELSE 0]_vars

\* the position the index of an edit names, when it names one
InRange(list, index) == 0 <= index /\ index < Len(list)

\* C9: an edit of an item at an index that is too large or negative is
\* answered with the caller error of an invalid index (status 400), and the
\* session is left as it was
C9_EditOutOfRangeRejected ==
    [][(/\ last'.op = "update_item" /\ HasSession(last'.thread)
        /\ \/ /\ last'.type = "requirement"
              /\ ~IsNone(Session(last'.thread).requirements_output)
              /\ ~InRange(RequirementsBefore(last'.thread), last'.indexes[1])
           \/ /\ last'.type = "risk"
              /\ ~IsNone(Session(last'.thread).risks_output)
              /\ ~InRange(RisksBefore(last'.thread), last'.indexes[1])) =>
           /\ last'.status = 400
           /\ workflow_states' = workflow_states]_vars

-----------------------------------------------------------------------------
(* Properties of the results of the stages                                   *)

\* what a stage returns to its caller beside the list it generated: whether it
\* raised, the messages of the state and the regeneration flag
StageFlags(result) ==
    [ raised |-> result.raised, messages |-> result.state.messages,
      regenerate_flag |-> result.state.regenerate_flag ]

\* the replies that are no json a stage can use: the stage substitutes its
\* fallback content for them
Unusable(replies, valid) == {r \in replies : r # valid /\ r.kind # "raise"}

\* C11: a stage that substitutes fallback content for a reply that is
\* unparseable or wrongly shaped does not raise, and what it returns beside the
\* list differs from what it returns for a valid reply, so that the caller
\* can tell the two apart
C11_FallbackIsFlagged ==
    \A t \in ThreadIds :
        HasSession(t) =>
            /\ \A bad \in Unusable(KeywordReplies, ReplyArray(GeneratedKeywords)) :
                   /\ ~generate_keywords(Session(t), bad).raised
                   /\ StageFlags(generate_keywords(Session(t), bad))
                         # StageFlags(generate_keywords(Session(t), ReplyArray(GeneratedKeywords)))
            /\ \A bad \in Unusable(RequirementReplies, ReplyArray(GeneratedRequirements)) :
                   /\ ~generate_requirements(Session(t), bad).raised
                   /\ StageFlags(generate_requirements(Session(t), bad))
                         # StageFlags(generate_requirements(Session(t),
                                                            ReplyArray(GeneratedRequirements)))
            /\ ~IsNone(Session(t).requirements_output) =>
                   \A bad \in Unusable(RiskReplies, ReplyObject("Risks", GeneratedRisks)) :
                       /\ ~generate_risks(Session(t), bad).raised
                       /\ StageFlags(generate_risks(Session(t), bad))
                             # StageFlags(generate_risks(Session(t),
                                                         ReplyObject("Risks", GeneratedRisks)))

-----------------------------------------------------------------------------
(* Properties of the regeneration with feedback                              *)

\* a text the single-item regeneration may put in the place of original
Substantive(value, original) == value = original \/ Len(value) >= MinItemLen

\* C12: for an index inside the list the single-item regeneration of a
\* requirement or of a risk returns the item as it was or a text of at least
\* MinItemLen characters, whatever the reply; and after a regeneration with
\* feedback every requested item at an index inside the list is as it was or at
\* least MinItemLen characters long
C12_RegenerationNeverDegrades ==
    [][/\ \A t \in ThreadIds :
              (HasSession(t) /\ ~IsNone(Session(t).requirements_output)
                  /\ ~IsNone(Session(t).risks_output)) =>
                  \A reply \in SingleReplies :
                      /\ \A i \in 0..(Len(RequirementsBefore(t)) - 1) :
                             LET r == generate_single_requirement_with_feedback(Session(t), i, reply)
                             IN  ~r.raised /\ Substantive(r.value, RequirementsBefore(t)[i + 1])
                      /\ \A i \in 0..(Len(RisksBefore(t)) - 1) :
                             LET r == generate_single_risk_with_feedback(Session(t), i, reply)
                             IN  ~r.raised /\ Substantive(r.value, RisksBefore(t)[i + 1])
       /\ (last'.op = "regenerate_with_feedback" /\ last'.status = 200) =>
              \A i \in Range(last'.indexes) :
                  /\ (last'.type = "requirement" /\ InRange(RequirementsBefore(last'.thread), i)) =>
                         Substantive(RequirementsAfter(last'.thread)[i + 1],
                                     RequirementsBefore(last'.thread)[i + 1])
                  /\ InRange(RisksBefore(last'.thread), i) =>
                         Substantive(RisksAfter(last'.thread)[i + 1],
                                     RisksBefore(last'.thread)[i + 1])]_vars

\* a regeneration of requirements with feedback was served in which one reply
\* was too short, so that the item was kept, and another reply replaced an item
C12_Witness ==
    /\ last.op = "regenerate_with_feedback" /\ last.type = "requirement"
    /\ last.status = 200
    /\ \E k \in 1..Len(last.regens) :
           last.regens[k].fn = "requirement" /\ ~last.regens[k].changed
    /\ \E k \in 1..Len(last.regens) :
           last.regens[k].fn = "requirement" /\ last.regens[k].changed

\* the list a regeneration with feedback of the given type works on
Targeted(state, type) ==
    IF type = "requirement" THEN state.requirements_output ELSE state.risks_output

\* C13: a regeneration with feedback whose request names an index that is
\* negative or not below the length of the list is answered with the caller
\* error of an invalid index (status 400); the index is not skipped and does
\* not stand for another position
C13_FeedbackOutOfRangeRejected ==
    [][(/\ last'.op = "regenerate_with_feedback"
        /\ HasSession(last'.thread)
        /\ ~IsNone(Session(last'.thread).requirements_output)
        /\ ~IsNone(Session(last'.thread).risks_output)
        /\ \E i \in Range(last'.indexes) :
               ~InRange(Targeted(Session(last'.thread), last'.type)[1], i)) =>
           /\ last'.status = 400
           /\ workflow_states' = workflow_states]_vars

-----------------------------------------------------------------------------
(* Properties of the order of the stages                                     *)

\* C15: the selected keyword of a session is absent or is one of the keywords
\* the session holds
C15_SelectedKeywordIsAKeyword ==
    \A t \in ThreadIds :
        (HasSession(t) /\ ~IsNone(Session(t).selected_keyword)) =>
            /\ ~IsNone(Session(t).keyword_output)
            /\ Session(t).selected_keyword[1] \in Range(Session(t).keyword_output[1])

\* the stage functions the step's request called before its k-th call
CalledBefore(k) == {last'.calls[j].fn : j \in 1..(k - 1)}

\* C14: no request calls generate_requirements on a session without a selected
\* keyword, none calls generate_risks on a session without requirements, and
\* in every state a session with risks has requirements and a session with
\* requirements has a selected keyword
C14_StagesInOrder ==
    [][/\ \A k \in 1..Len(last'.calls) :
              /\ last'.calls[k].fn = "generate_requirements" =>
                     /\ HasSession(last'.thread)
                     /\ \/ ~IsNone(Session(last'.thread).selected_keyword)
                        \/ last'.op = "select_keyword"   \* selects it before the call
              /\ last'.calls[k].fn = "generate_risks" =>
                     /\ HasSession(last'.thread)
                     /\ \/ ~IsNone(Session(last'.thread).requirements_output)
                        \/ "generate_requirements" \in CalledBefore(k)
       /\ \A t \in ThreadIds :
              ~IsNone(workflow_states'[t]) =>
                  /\ ~IsNone(workflow_states'[t][1].risks_output) =>
                         ~IsNone(workflow_states'[t][1].requirements_output)
                  /\ ~IsNone(workflow_states'[t][1].requirements_output) =>
                         ~IsNone(workflow_states'[t][1].selected_keyword)]_vars

-----------------------------------------------------------------------------
(* Properties of the manual edit                                             *)

\* the positions of list other than the one index i names
Others(list, i) == {p \in 1..Len(list) : p # i + 1}

\* C16: a manual edit of the item at an index inside the list overwrites that
\* item only: an edit of a risk leaves the requirements and every other risk
\* as they were; an edit of a requirement leaves every other requirement as it
\* was, leaves all risks as they were when no risk is regenerated, and leaves
\* every risk but the paired one as it was when the risk is regenerated
C16_EditOverwritesOneItem ==
    [][(/\ last'.op = "update_item" /\ last'.status = 200
        /\ HasSession(last'.thread)
        /\ ~IsNone(Session(last'.thread).requirements_output)
        /\ ~IsNone(Session(last'.thread).risks_output)
        /\ InRange(Targeted(Session(last'.thread), last'.type)[1], last'.indexes[1])) =>
           LET t == last'.thread
               i == last'.indexes[1]
           IN  /\ Len(RequirementsAfter(t)) = Len(RequirementsBefore(t))
               /\ Len(RisksAfter(t)) = Len(RisksBefore(t))
               /\ last'.type = "risk" =>
                      /\ RequirementsAfter(t) = RequirementsBefore(t)
                      /\ \A p \in Others(RisksBefore(t), i) :
                             RisksAfter(t)[p] = RisksBefore(t)[p]
               /\ last'.type = "requirement" =>
                      /\ \A p \in Others(RequirementsBefore(t), i) :
                             RequirementsAfter(t)[p] = RequirementsBefore(t)[p]
                      /\ \A p \in Others(RisksBefore(t), i) :
                             RisksAfter(t)[p] = RisksBefore(t)[p]
                      /\ last'.calls = <<>> => RisksAfter(t) = RisksBefore(t)]_vars

-----------------------------------------------------------------------------
(* Properties of the workflow graph                                          *)

\* the step is the return of the given node of a run
Returned(node) == last'.op = node /\ last'.status = 200

\* the directive in the state the step's node was entered with
Directive == Session(last'.thread).regenerate_flag

C18_DirectiveClearedOnReturn ==
    [][((Returned("generate_requirements") \/ Returned("generate_risks"))
          /\ ~IsNone(Directive)) =>
           IsNone(workflow_states'[last'.thread][1].regenerate_flag)]_vars

\* C20: a run streamed from the entry point, as create_project streams it,
\* executes the node generate_keywords and nothing else: when the node has
\* returned the run is at END, the session holds StageSize keywords and no
\* selected keyword, requirements or risks, and the graph database is as it was
C20_CreateStopsAfterKeywords ==
    [][(last'.type = EntryPoint /\ last'.op # "stream") =>
           /\ last'.op = "generate_keywords" /\ last'.status = 200
           /\ last'.detail = END
           /\ last'.calls # <<>>
           /\ \A k \in 1..Len(last'.calls) : last'.calls[k].fn = "generate_keywords"
           /\ FullList(workflow_states'[last'.thread][1].keyword_output)
           /\ IsNone(workflow_states'[last'.thread][1].selected_keyword)
           /\ IsNone(workflow_states'[last'.thread][1].requirements_output)
           /\ IsNone(workflow_states'[last'.thread][1].risks_output)
           /\ graph_db' = graph_db]_vars

\* the run of a created project has ended after its keywords were generated
C20_Witness ==
    /\ last.op = "generate_keywords" /\ RunEntry = EntryPoint /\ RunNext = END
    /\ HasSession(last.thread)
    /\ FullList(Session(last.thread).keyword_output)

-----------------------------------------------------------------------------
(* Properties of the session map                                             *)

\* the routes that work on the session of the thread their request names
SessionScoped ==
    { "select_keyword", "regenerate", "regenerate_with_feedback", "regenerate_requirements",
      "regenerate_risks", "update_item", "generate_test_cases", "save", "save_selected" }

\* C19: a route that works on a session, called for a thread that has no
\* session, answers 404, calls no stage function and no single-item
\* regeneration, writes nothing to the graph database, and leaves the session
\* map as it was: no session is made for the thread
C19_UnknownSessionNotFound ==
    [][(last'.op \in SessionScoped /\ ~HasSession(last'.thread)) =>
           /\ last'.status = 404
           /\ last'.calls = <<>> /\ last'.regens = <<>>
           /\ workflow_states' = workflow_states
           /\ graph_db' = graph_db /\ clock' = clock]_vars

\* a request for test cases was answered 404 for a thread without a session,
\* while the other thread has a session with requirements
C19_Witness ==
    /\ last.op = "generate_test_cases" /\ last.status = 404
    /\ ~HasSession(last.thread)
    /\ \E t \in ThreadIds : HasSession(t) /\ ~IsNone(Session(t).requirements_output)

-----------------------------------------------------------------------------
(* Properties of the order of the requests of one session                    *)

\* the requirement the session holds after the step at the position index names
RequirementAt(t, index) ==
    RequirementsAfter(t)[PyPos(RequirementsAfter(t), index)]

\* C21: the prompt of every regeneration of a risk is given the requirement
\* text the session holds at the index when the regeneration starts: the text
\* an edit served before has stored, and the text the requirement step of the
\* same regeneration with feedback has set, never the text from before
C21_RiskSeesCurrentRequirement ==
    [][(last'.op = "regenerate_with_feedback" /\ last'.status = 200) =>
           \A k \in 1..Len(last'.regens) :
               (/\ last'.regens[k].fn = "risk"
                /\ last'.regens[k].index < Len(RequirementsAfter(last'.thread))
                /\ ~IndexError(RequirementsAfter(last'.thread), last'.regens[k].index)) =>
                   last'.regens[k].context = RequirementAt(last'.thread, last'.regens[k].index)]_vars

\* a regeneration with feedback replaced a requirement and then regenerated
\* its risk with the new requirement text in the prompt
C21_Witness ==
    /\ last.op = "regenerate_with_feedback" /\ last.type = "requirement"
    /\ last.status = 200
    /\ \E k \in 1..Len(last.regens) :
           /\ last.regens[k].fn = "risk"
           /\ last.regens[k].context = "Regenerated item text"

-----------------------------------------------------------------------------
(* Properties of the handlers while a call of the llm is in flight           *)

\* the lists the session of the suspended handler holds
ListsNow == Lists(Session(last.thread))

\* C22: while a call of the llm is in flight the list the call generates
\* for is the whole list the session held when the handler was entered, and
\* neither list is partially updated: the requirements are those of the entry
\* or, once every requirement call has returned, the whole list the handler
\* has put together
C22_ListsWholeWhileInFlight ==
    Suspended =>
        /\ last.fn \in {"requirement", "generate_requirements"} =>
               ListsNow.requirements = last.entry.requirements
        /\ last.fn = "risk" => ListsNow.risks = last.entry.risks
        /\ \/ ListsNow.requirements = last.entry.requirements
           \/ /\ last.op = "regenerate_with_feedback" /\ last.frame.phase = "cascade"
              /\ ListsNow.requirements = Some(last.frame.requirements)
        /\ ListsNow.risks = last.entry.risks

\* a second requirement call is in flight after the first has changed the
\* handler's copy of the list
C22_Witness ==
    /\ Suspended /\ last.op = "regenerate_with_feedback" /\ last.fn = "requirement"
    /\ last.frame.updated # <<>>
    /\ Some(last.frame.requirements) # last.entry.requirements

-----------------------------------------------------------------------------
(* Properties of two sessions                                                *)

\* the nodes and relationships of the graph that carry the project name
NodesOf(g, name) ==
    [ projects |-> {p \in g.projects : p.name = name},
      requirements |-> {r \in g.requirements : r.project = name},
      risks |-> {rk \in g.risks : rk.project = name},
      has_requirement |-> {e \in g.has_requirement : e[1] = name \/ e[2].project = name},
      has_risk |-> {e \in g.has_risk : e[1].project = name \/ e[2].project = name} ]

\* the request served by the step was one of thread t
ServedTo(t) == last'.thread = t

\* what a save of the session of t at time now leaves of the project of t, in
\* the graph as it is and in a graph that holds the nodes of t alone
SaveAlone(t, now) ==
    call_save_tool(Session(t), NodesOf(graph_db, t), now, NoFailure)

SaveAmong(t, now) ==
    call_save_tool(Session(t), graph_db, now, NoFailure)

\* C23: a request of one session leaves the state dictionary of every other
\* session and the nodes that carry another project's name as they were, and
\* a save writes for its project what it would write were the nodes of the
\* other projects not there, so that each session ends as its own requests
\* alone would leave it
C23_SessionsIndependent ==
    /\ [][\A u \in ThreadIds :
              ~ServedTo(u) => /\ workflow_states'[u] = workflow_states[u]
                              /\ NodesOf(graph_db', u) = NodesOf(graph_db, u)]_vars
    /\ [](\A t \in ThreadIds, now \in Times :
              (HasSession(t) /\ ~IsNone(Session(t).requirements_output)
                             /\ ~IsNone(Session(t).risks_output)) =>
                  /\ SaveAmong(t, now).state = SaveAlone(t, now).state
                  /\ NodesOf(SaveAmong(t, now).graph, t) = SaveAlone(t, now).graph)

\* both sessions have saved, and the one served last saved after the other
C23_Witness ==
    /\ last.op \in {"save", "save_selected"} /\ last.status = 200
    /\ \A t \in ThreadIds :
           /\ HasSession(t)
           /\ NodesOf(graph_db, t).requirements # {}
           /\ NodesOf(graph_db, t).risks # {}
    /\ \E t \in ThreadIds : Session(t).requirements_output # Session(last.thread).requirements_output

-----------------------------------------------------------------------------
(* Properties of the save                                                    *)

\* the state dictionary of the session served by the step, before and after
StateBefore == workflow_states[last'.thread][1]

StateAfter == workflow_states'[last'.thread][1]

\* no route of regeneration, edit or save rejects the request for what the
\* state dictionary holds (regeneration.py:23, 217-221, 270-274;
\* state_management.py:62, 75; saving.py:65)
Reenterable(state) ==
    /\ ~IsNone(state.selected_keyword)
    /\ ~IsNone(state.requirements_output)
    /\ ~IsNone(state.risks_output)

\* C24: a save that is served leaves everything of the session but its
\* history as it was (keywords, selected keyword, requirements, risks and test
\* cases), runs the save tool once, appends one message to the history, and
\* leaves the session in a state no route of regeneration, edit or save rejects
C24_SaveFrame ==
    [][(last'.op = "save" /\ last'.status = 200) =>
           /\ [StateAfter EXCEPT !.messages = StateBefore.messages] = StateBefore
           /\ Len(StateAfter.messages) = Len(StateBefore.messages) + 1
           /\ Len(last'.calls) = 1 /\ last'.calls[1].fn = "save_to_neo4j"
           /\ Reenterable(StateAfter)]_vars

\* a session that holds test cases is saved a second time
C24_Witness ==
    /\ last.op = "save" /\ last.status = 200 /\ last.again
    /\ ~IsNone(Session(last.thread).test_cases_output)

\* the run of the save tool the served save made
SaveRun == last'.calls[1]

\* C25: a save in which a query of the database raised is not answered with
\* the status "saved": the caller is given an error, and the tool is run once
C25_FailedSaveIsReported ==
    [][(last'.op = "save" /\ last'.calls # <<>> /\ SaveRun.result = "Error") =>
           /\ last'.status # 200
           /\ last'.detail # "saved"
           /\ Len(last'.calls) = 1]_vars

\* the Requirement of position i and the Risk of position i that the save of
\* the session writes
RequirementNode(i) ==
    ItemNode(StateBefore.requirements_output[1][i], StateBefore.project_name, i)

RiskNode(i) ==
    ItemNode(StateBefore.risks_output[1][i], StateBefore.project_name, i)

\* the Requirement nodes of the project at the index after the save
RequirementsAt(name, i) ==
    {r \in graph_db'.requirements : r.project = name /\ r.index = i}

\* C26: after a save of which k queries ran the graph holds what the first k
\* queries merge, in the order project, requirements 1..n, risks 1..n: the
\* Project when k >= 1, the Requirement i when k >= 1 + i, the Risk i, linked
\* to the requirements of its index, when k >= 1 + n + i and the project has a
\* requirement of that index; what the later queries would add is not there
\* unless it was before, and nothing that was in the graph before is removed
C26_SaveLeavesPrefix ==
    [][(last'.op = "save" /\ last'.calls # <<>>) =>
           LET k == SaveRun.ran
               n == Len(StateBefore.requirements_output[1])
               name == StateBefore.project_name
           IN  /\ k >= 1 => \E p \in graph_db'.projects :
                                /\ p.name = name
                                /\ Some(p.keyword) = StateBefore.selected_keyword
               /\ k = 0 => graph_db' = graph_db
               /\ \A i \in 1..n :
                      IF k >= 1 + i
                      THEN /\ RequirementNode(i) \in graph_db'.requirements
                           /\ <<name, RequirementNode(i)>> \in graph_db'.has_requirement
                      ELSE RequirementNode(i) \in graph_db'.requirements
                              <=> RequirementNode(i) \in graph_db.requirements
               /\ \A i \in 1..Len(StateBefore.risks_output[1]) :
                      IF k >= 1 + n + i /\ RequirementsAt(name, i) # {}
                      THEN /\ RiskNode(i) \in graph_db'.risks
                           /\ \A r \in RequirementsAt(name, i) :
                                  <<r, RiskNode(i)>> \in graph_db'.has_risk
                      ELSE RiskNode(i) \in graph_db'.risks <=> RiskNode(i) \in graph_db.risks
               /\ graph_db.requirements \subseteq graph_db'.requirements
               /\ graph_db.risks \subseteq graph_db'.risks
               /\ graph_db.has_requirement \subseteq graph_db'.has_requirement
               /\ graph_db.has_risk \subseteq graph_db'.has_risk
               /\ \A p \in graph_db.projects : ProjectExists(graph_db', p.name)]_vars

\* a save stopped between the requirements: the graph holds the project and
\* the first requirements, and no risk
C26_Witness ==
    /\ last.op = "save" /\ last.calls # <<>>
    /\ last.calls[1].result = "Error" /\ last.calls[1].ran = 3
    /\ Cardinality(graph_db.requirements) = 2
    /\ graph_db.risks = {}

-----------------------------------------------------------------------------
(* Properties of the load                                                    *)

\* the Requirement nodes of the project that hold the text
NodesWith(name, text) ==
    {r \in graph_db.requirements : r.project = name /\ r.description = text}

\* C27: after a load the requirements of the session are in the order of the
\* index of their nodes, and the risk at every position of the risks is one
\* the graph links to the requirement at that position
C27_LoadKeepsRisksAligned ==
    (last.op = "load" /\ last.status = 200) =>
        LET name == last.thread
            reqs == Session(name).requirements_output[1]
            risks == Session(name).risks_output[1]
        IN  /\ \A i, j \in 1..Len(reqs) :
                   i < j => \E a \in NodesWith(name, reqs[i]), b \in NodesWith(name, reqs[j]) :
                               a.index < b.index
            /\ \A i \in 1..Len(risks) :
                   /\ i <= Len(reqs)
                   /\ \E e \in graph_db.has_risk :
                          /\ e[1] \in NodesWith(name, reqs[i])
                          /\ e[2].description = risks[i]

-----------------------------------------------------------------------------
(* Properties of the test cases                                              *)

\* the dictionary of test cases of a state dictionary: empty when it has none
TestCasesOf(state) ==
    IF IsNone(state.test_cases_output) THEN <<>> ELSE state.test_cases_output[1]

\* the positions the step may have given test cases: the one the request names
TestCasesAsked ==
    IF last'.op = "generate_test_cases" THEN {last'.indexes[1]} ELSE {}

\* C28: every entry of the test cases of a session holds two or three test
\* cases, whatever the reply of the llm held, and a step adds an entry at no
\* position but the one a request for test cases names
C28_TestCaseEntriesHoldTwoOrThree ==
    /\ [](\A t \in ThreadIds : HasSession(t) =>
              \A i \in DOMAIN TestCasesOf(Session(t)) :
                  Len(TestCasesOf(Session(t))[i]) \in {MinTestCases, MinTestCases + 1})
    /\ [][\A t \in ThreadIds : (HasSession(t) /\ workflow_states'[t] # None) =>
              DOMAIN TestCasesOf(workflow_states'[t][1])
                  \subseteq DOMAIN TestCasesOf(Session(t)) \cup TestCasesAsked]_vars

\* C29: a request for the test cases of a requirement that is served leaves
\* the session as it was but for the history and the entry of the test cases at
\* the index; when the index names no requirement of the session the request
\* is not answered as a success and the session is as it was
C29_TestCasesFrame ==
    [][(last'.op = "generate_test_cases" /\ HasSession(last'.thread)
          /\ ~IsNone(StateBefore.requirements_output)) =>
           LET index == last'.indexes[1]
               valid == InRange(StateBefore.requirements_output[1], index)
           IN  /\ [StateAfter EXCEPT !.messages = StateBefore.messages,
                                     !.test_cases_output = StateBefore.test_cases_output]
                      = StateBefore
               /\ \A i \in DOMAIN TestCasesOf(StateBefore) \ {index} :
                      /\ i \in DOMAIN TestCasesOf(StateAfter)
                      /\ TestCasesOf(StateAfter)[i] = TestCasesOf(StateBefore)[i]
               /\ DOMAIN TestCasesOf(StateAfter) \subseteq DOMAIN TestCasesOf(StateBefore) \cup {index}
               /\ ~valid => /\ last'.status # 200
                            /\ StateAfter = StateBefore]_vars

-----------------------------------------------------------------------------
(* Properties of the parsing of a reply                                      *)

\* C30: of a reply that is prose, one json array and prose, without a code
\* fence, extract_json_from_text followed by safe_json_parse yields the array,
\* never a failure; a comma before the closing bracket of the array is dropped
\* and the array is still the result
C30_ArrayInProseIsParsed ==
    last.op = "parsed" =>
        /\ ~IsNone(last.parsed)
        /\ last.parsed = Some(IF IsJson(last.array) THEN last.array
                              ELSE DropCommaBefore(last.array, "]"))

\* the relationships of the project that the graph database holds
RelationshipsOf(g, name) ==
    Cardinality({e \in g.has_requirement : e[1] = name})
      + Cardinality({e \in g.has_risk : e[1].project = name})
      + Cardinality({e \in g.verified_by : e[1].project = name})

\* the nodes of the project that the graph database holds
PersistedOf(g, name) ==
    Cardinality({p \in g.projects : p.name = name})
      + Cardinality({r \in g.requirements : r.project = name})
      + Cardinality({rk \in g.risks : rk.project = name})
      + Cardinality({tc \in g.test_cases : tc.project = name})

\* the graph of a project was read that holds requirements, risks and test cases
TracedWhole ==
    /\ last.op = "traceability"
    /\ \E p \in graph_db.projects : p.name = last.thread
    /\ \E r \in graph_db.requirements : r.project = last.thread
    /\ \E rk \in graph_db.risks : rk.project = last.thread
    /\ \E tc \in graph_db.test_cases : tc.project = last.thread

\* C31: the traceability graph of a project whose requirements, risks and test
\* cases were saved holds one node for every persisted Project, Requirement,
\* Risk and TestCase of the project and one link for every HAS_REQUIREMENT,
\* HAS_RISK and VERIFIED_BY relationship among them, and the source and the
\* target of every link are ids of returned nodes
C31_TraceabilityGraphIsWhole ==
    TracedWhole =>
        /\ Cardinality(last.graph.nodes) = PersistedOf(graph_db, last.thread)
        /\ BagCardinality(last.graph.links) = RelationshipsOf(graph_db, last.thread)
        /\ \A l \in DOMAIN last.graph.links :
               /\ \E n \in last.graph.nodes : n.id = l.source
               /\ \E n \in last.graph.nodes : n.id = l.target

\* the history of thread t before and after the step
HistoryBefore(t) == IF HasSession(t) THEN Session(t).messages ELSE <<>>

HistoryAfter(t) == IF IsNone(workflow_states'[t]) THEN <<>> ELSE workflow_states'[t][1].messages

\* history old is the beginning of history new
Extends(new, old) == Len(old) <= Len(new) /\ SubSeq(new, 1, Len(old)) = old

\* C32: the history of a session is append-only: no operation on a thread, a
\* create or a load of an id that exists included, shortens the history or
\* changes an entry of it, and every save that is answered with success and
\* every keyword selection that has run its stages appends an entry
C32_HistoryIsAppendOnly ==
    [][/\ \A t \in ThreadIds : Extends(HistoryAfter(t), HistoryBefore(t))
       /\ (last'.status = 200 /\ last'.op \in {"save", "select_keyword"})
              => Len(HistoryAfter(last'.thread)) > Len(HistoryBefore(last'.thread))]_vars

\* the step is a save whose run of save_to_neo4j returned the text of a success
SaveSucceeded ==
    /\ last'.op = "save" /\ last'.status = 200
    /\ SaveRun.result = "Successfully saved to Neo4j"

\* C33: the result of a successful save states the number of requirements and
\* the number of risks that were saved, which are the lengths of the two lists
\* of the saved state
C33_SaveReportsCounts ==
    [][SaveSucceeded =>
          CountsIn(SaveRun.result) = Some(<<Len(StateAfter.requirements_output[1]),
                                            Len(StateAfter.risks_output[1])>>)]_vars

\* the step served a feedback regeneration of a documented type with success
FeedbackServed(type) ==
    /\ last'.op = "regenerate_with_feedback" /\ last'.type = type
    /\ last'.status = 200

\* C34: a feedback regeneration of the type 'requirements' regenerates the
\* requirement at every given index of the list through the regeneration of
\* one item, and one of the type 'risks' the risk at every given index
C34_DocumentedTypesRegenerate ==
    [][/\ FeedbackServed("requirements") =>
              \A k \in 1..Len(last'.indexes) :
                  InRange(RequirementsBefore(last'.thread), last'.indexes[k])
                     => RegensOf("requirement", last'.indexes[k]) # {}
       /\ FeedbackServed("risks") =>
              \A k \in 1..Len(last'.indexes) :
                  InRange(RisksBefore(last'.thread), last'.indexes[k])
                     => RegensOf("risk", last'.indexes[k]) # {}]_vars

\* the run in progress is in the regeneration loop
InLoop == RunNext \in {"generate_requirements", "generate_risks"}

\* C35: the regeneration loop of the workflow graph terminates: a run that is
\* in the loop, entered with any directive, eventually leaves it for save_to_db
\* or the end of the run, whatever the generators do, a generator that fails on
\* every call included
C35_RegenerationLoopTerminates ==
    InLoop ~> (RunNext \in {"save_to_db", END})

\* the step serves a request for the test cases of a requirement of thread t at
\* index, the llm answering with the bare json array of the first n generated
\* test cases
BareArrayServed(t, index, n) ==
    /\ HasSession(t) /\ ~IsNone(Session(t).requirements_output)
    /\ InRange(RequirementsBefore(t), index)
    /\ generate_test_cases_route(t, index, ReplyArrayOfObjects(SubSeq(GeneratedTestCases, 1, n)))

\* C36: when the llm answers with a bare json array of two or three test-case
\* objects, the array is stored as the test cases of the requirement: the
\* fallback test cases do not take its place
C36_BareArrayIsStored ==
    [][\A t \in ThreadIds, index \in TestCaseIndexes, n \in {MinTestCases, MinTestCases + 1} :
          BareArrayServed(t, index, n) =>
              /\ index \in DOMAIN TestCasesOf(workflow_states'[t][1])
              /\ TestCasesOf(workflow_states'[t][1])[index] = SubSeq(GeneratedTestCases, 1, n)]_vars

-----------------------------------------------------------------------------
(* Properties of the regeneration by indexes                                 *)

\* the session of thread t holds what a regeneration by indexes asks for
Regenerable(t) ==
    /\ HasSession(t) /\ ~IsNone(Session(t).selected_keyword)
    /\ ~IsNone(Session(t).requirements_output) /\ ~IsNone(Session(t).risks_output)

\* the positions of list l that the indexes of ix denote
Named(l, ix) == {PyPos(l, ix[k]) : k \in 1..Len(ix)} \cap (1..Len(l))

\* list new holds the item of the batch at the named positions and the item of
\* list old at every other position
Mixed(new, old, batch, ix) ==
    /\ Len(new) = Len(old)
    /\ \A pos \in 1..Len(old) :
           new[pos] = IF pos \in Named(old, ix) THEN batch[pos] ELSE old[pos]

\* C37: a regeneration by indexes calls the generator of the whole stage once,
\* however many indexes the request holds, and afterwards the list holds the
\* item of the generated batch at every requested index and the item it held
\* before at every other position: the rest of the batch is discarded
C37_BatchCommittedAtIndexesOnly ==
    [][\A ix \in IndexLists :
          /\ \A q \in RequirementRepliesFew :
                 (Regenerable("p1") /\ regenerate_requirements("p1", Some(ix), q)) =>
                     /\ Len(last'.calls) = 1
                     /\ Mixed(RequirementsAfter("p1"), RequirementsBefore("p1"),
                              generate_requirements(Session("p1"), q).state.requirements_output[1],
                              ix)
          /\ \A r \in RiskRepliesFew :
                 (Regenerable("p1") /\ regenerate_risks("p1", Some(ix), r)) =>
                     /\ Len(last'.calls) = 1
                     /\ Mixed(RisksAfter("p1"), RisksBefore("p1"),
                              generate_risks(Session("p1"), r).state.risks_output[1], ix)]_vars

\* the keywords, the selected keyword, the requirements and the risks of a state
Outputs(state) ==
    <<state.keyword_output, state.selected_keyword,
      state.requirements_output, state.risks_output>>

\* the step answered the request of a thread that has a session with an error
ErrorServed == last'.status >= 400 /\ HasSession(last'.thread)

\* C38: a request that is answered with an error leaves the keywords, the
\* selected keyword, the requirements and the risks of the session as they
\* were: no generated batch and no substituted keyword is committed
C38_ErrorsCommitNothing ==
    [][ErrorServed => Outputs(StateAfter) = Outputs(StateBefore)]_vars

-----------------------------------------------------------------------------
(* Properties of the session map                                             *)

\* a state dictionary without its history
WithoutHistory(state) == [state EXCEPT !.messages = <<>>]

\* the keywords a create may leave: the generated ones or the fallback ones
CreatedKeywords == {Some(GeneratedKeywords), Some(FallbackKeywords)}

\* the texts of the nodes in ns
Descriptions(ns) == {n.description : n \in ns}

====
